---- MODULE Spec2Model ----
(***************************************************************************)
(* Sensor simulation and anomaly detection: the rolling z-score detector,  *)
(* the rule-based detector, the alert coordinator and the base sensor.     *)
(*                                                                         *)
(* Numbers.  Sensor values are modelled as integers counting half units    *)
(* (46 stands for 23.0, 45 for 22.5): every value of the scenarios of the  *)
(* repository is a multiple of 0.5, and the z-score is invariant under the *)
(* scaling.  A z-score is kept as the exact rational z^2 = num / den, so   *)
(* that z >= t is decided without rounding.                                *)
(***************************************************************************)
EXTENDS Integers, Sequences, FiniteSets, TLC

\* ---------------------------------------------------------------- bounds
\* Readings a run may process beyond the configured window size.
Extra == 2
\* add_rule / remove_rule calls in one run.
MaxEdits == 2
\* read() calls on one sensor that return a reading.
MaxReads == 2
\* read() calls on one sensor that raise.
MaxErrors == 1
\* Days the wall clock advances.
MaxDays == 1
\* Items a consumer takes from one stream.
MaxItems == 3
\* Lines of an input file of detect_command
MaxLines == 3

\* ------------------------------------------------------------- numbers
\* x whole units (degrees, hPa, per cent) in half units.
Units(x) == 2 * x
\* float('nan'): a value outside every range the model draws values from.
NaN == -999999
IsNaN(v) == v = NaN

Abs(x) == IF x < 0 THEN -x ELSE x
Max(a, b) == IF a >= b THEN a ELSE b
Min(a, b) == IF a <= b THEN a ELSE b

RECURSIVE SeqSum(_)
SeqSum(s) == IF s = <<>> THEN 0 ELSE Head(s) + SeqSum(Tail(s))

RECURSIVE SeqSumSq(_)
SeqSumSq(s) == IF s = <<>> THEN 0 ELSE Head(s) * Head(s) + SeqSumSq(Tail(s))

HasNaN(s) == \E i \in 1..Len(s) : IsNaN(s[i])

\* The last n elements of s (all of s when it is shorter).
LastN(s, n) == SubSeq(s, Max(1, Len(s) - n + 1), Len(s))

\* ------------------------------------------------------------ readings
\* SensorReading.sensor_id is Optional[str]; None is kept apart from every id.
None == "<None>"

SensorReading(value, timestamp, sensor_id, sensor_type) ==
    [value |-> value, timestamp |-> timestamp,
     sensor_id |-> sensor_id, sensor_type |-> sensor_type]

\* `sensor_id or default`: None and the empty string are falsy.
OrDefault(id, default) == IF id = None \/ id = "" THEN default ELSE id

\* str() of an optional id inside an f-string.
IdStr(id) == IF id = None THEN "None" ELSE id

\* ----------------------------------------------------------- severities
SeverityRank(s) ==
    CASE s = "low" -> 1 [] s = "medium" -> 2 [] s = "high" -> 3 [] s = "critical" -> 4

\* ------------------------------------------------------------ z-scores
\* A z-score: kind "num" with z^2 = num / den (den > 0), or kind "nan".
ZScore(num, den) == [kind |-> "num", num |-> num, den |-> den]
ZeroScore == ZScore(0, 1)
NaNScore == [kind |-> "nan", num |-> 0, den |-> 1]

\* z >= t for a float t given as an integer; a NaN compares false.
ZGe(z, t) == /\ z.kind = "num"
             /\ \/ t <= 0
                \/ z.num >= t * t * z.den
\* z > t.
ZGt(z, t) == /\ z.kind = "num"
             /\ \/ t < 0
                \/ z.num > t * t * z.den
IsZero(z) == z.kind = "num" /\ z.num = 0

\* ---------------------------------------------------------- SensorWindow
SensorWindow(window_size) ==
    [window_size |-> window_size, values |-> <<>>, timestamps |-> <<>>]

\* Mutant: a full deque drops the incoming value instead of its oldest one.
DequeAppend_KeepOldest(d, x, maxlen) ==
    IF Len(d) >= maxlen THEN d ELSE Append(d, x)

\* deque(maxlen = n).append(x)
DequeAppend(d, x, maxlen) ==
    IF maxlen = 0 THEN d
    ELSE IF Len(d) >= maxlen THEN Append(Tail(d), x)
    ELSE Append(d, x)

add_reading(w, reading) ==
    [w EXCEPT !.values = DequeAppend(w.values, reading.value, w.window_size),
              !.timestamps = DequeAppend(w.timestamps, reading.timestamp, w.window_size)]

\* Mutant: full one value early.
is_full_OffByOne(w) == Len(w.values) >= w.window_size - 1

is_full(w) == Len(w.values) >= w.window_size

\* n * sum(x^2) - sum(x)^2 = n * (n - 1) * variance: zero iff stdev == 0.
ScaledVariance(values) ==
    Len(values) * SeqSumSq(values) - SeqSum(values) * SeqSum(values)

\* Mutant: population standard deviation (divisor n) instead of the sample one.
get_z_score_Population(w, value) ==
    IF Len(w.values) < 2 THEN ZeroScore
    ELSE IF HasNaN(w.values) THEN NaNScore
    ELSE IF ScaledVariance(w.values) = 0 THEN ZeroScore
    ELSE IF IsNaN(value) THEN NaNScore
    ELSE LET n == Len(w.values)
             d == n * value - SeqSum(w.values)
         IN  ZScore(d * d * n, n * ScaledVariance(w.values))

\* Mutant: no zero-stdev guard; a value off the mean of a constant window
\* scores infinitely high (den = 0).
get_z_score_NoZeroGuard(w, value) ==
    IF Len(w.values) < 2 THEN ZeroScore
    ELSE IF HasNaN(w.values) \/ IsNaN(value) THEN NaNScore
    ELSE LET n == Len(w.values)
             d == n * value - SeqSum(w.values)
         IN  IF d = 0 THEN ZeroScore
             ELSE ZScore(d * d * (n - 1), n * ScaledVariance(w.values))

get_z_score(w, value) ==
    IF Len(w.values) < 2 THEN ZeroScore
    ELSE IF HasNaN(w.values) THEN NaNScore
    ELSE IF ScaledVariance(w.values) = 0 THEN ZeroScore
    ELSE IF IsNaN(value) THEN NaNScore
    ELSE LET n == Len(w.values)
             d == n * value - SeqSum(w.values)
         IN  ZScore(d * d * (n - 1), n * ScaledVariance(w.values))

\* What statistics.stdev does inside get_z_score on the window w.  On values
\* holding a NaN the interpreter decides: CPython 3.11 raises AttributeError,
\* which the handler for StatisticsError lets through, and other versions
\* return a NaN.  statistics.mean returns a NaN on every version.
StdevOutcomes(w) ==
    IF Len(w.values) >= 2 /\ HasNaN(w.values) THEN {"raised", "returned"}
    ELSE {"returned"}

\* --------------------------------------------------------- ZScoreDetector
\* Mutant: one key for every sensor.
get_sensor_key_Shared(reading) == "sensor"

\* f"{reading.sensor_type}_{reading.sensor_id}"
get_sensor_key(reading) == reading.sensor_type \o "_" \o IdStr(reading.sensor_id)

get_severity_from_z_score(z) ==
    IF ZGe(z, 5) THEN "critical"
    ELSE IF ZGe(z, 4) THEN "high"
    ELSE IF ZGe(z, 3) THEN "medium"
    ELSE "low"

ZRuleName(z_threshold) == "z_score_" \o ToString(z_threshold) \o ".0"

ZAlert(reading, z, z_threshold, window) ==
    [timestamp |-> reading.timestamp,
     sensor_id |-> OrDefault(reading.sensor_id, "unknown"),
     sensor_type |-> reading.sensor_type,
     rule_name |-> ZRuleName(z_threshold),
     severity |-> get_severity_from_z_score(z),
     value |-> reading.value,
     threshold |-> z_threshold,
     metadata |-> [rule_type |-> "z_score", z_score |-> z,
                   window_size |-> window.window_size,
                   window_count |-> Len(window.values)]]

\* The window of the reading's key, created on first use.
WindowFor(windows, size, key) ==
    IF key \in DOMAIN windows THEN windows[key] ELSE SensorWindow(size)

\* Mutant: the reading is added to the window before it is scored.
ZScoreDetector_process_reading_AddFirst(size, thr, windows, reading) ==
    LET key == get_sensor_key(reading)
        window == add_reading(WindowFor(windows, size, key), reading)
        scored == is_full(window)
        z == IF scored THEN get_z_score(window, reading.value) ELSE ZeroScore
        alerts == IF scored /\ ZGe(z, thr)
                  THEN <<ZAlert(reading, z, thr, window)>>
                  ELSE <<>>
    IN  [sensor_windows |-> [k \in DOMAIN windows \cup {key} |->
                                IF k = key THEN window ELSE windows[k]],
         alerts |-> alerts,
         scored |-> scored,
         scored_against |-> IF scored THEN window.values ELSE <<>>,
         z_score |-> z]

\* One call of ZScoreDetector.process_reading on the detector state
\* (window_size, z_threshold, sensor_windows).  The result carries the new
\* sensor_windows and the returned alerts, and, for the properties, what
\* the call scored: whether a z-score was computed, against which window
\* values, and the score.
ZScoreDetector_process_reading(size, thr, windows, reading) ==
    LET key == get_sensor_key(reading)
        window == WindowFor(windows, size, key)
        scored == is_full(window)
        z == IF scored THEN get_z_score(window, reading.value) ELSE ZeroScore
        alerts == IF scored /\ ZGe(z, thr)
                  THEN <<ZAlert(reading, z, thr, window)>>
                  ELSE <<>>
        after == add_reading(window, reading)
    IN  [sensor_windows |-> [k \in DOMAIN windows \cup {key} |->
                                IF k = key THEN after ELSE windows[k]],
         alerts |-> alerts,
         scored |-> scored,
         scored_against |-> IF scored THEN window.values ELSE <<>>,
         z_score |-> z]

\* Mutant: reset leaves the windows as they are.
ZScoreDetector_reset_KeepsWindows(windows) == windows

\* ZScoreDetector.reset: self.sensor_windows.clear()
ZScoreDetector_reset(windows) == [k \in {} |-> SensorWindow(0)]

\* ZScoreDetector.list_monitored_sensors
list_monitored_sensors(windows) == DOMAIN windows

\* ------------------------------------------------------------ ThresholdRule
\* A rule's condition is a lambda over the value: x < bound or x > bound.
ThresholdRule(name, sensor_type, op, bound, threshold, severity) ==
    [name |-> name, sensor_type |-> sensor_type,
     condition |-> [op |-> op, bound |-> bound],
     threshold |-> threshold, severity |-> severity]

\* condition(value); every comparison with a NaN is false.
Condition(c, x) ==
    /\ ~IsNaN(x)
    /\ \/ c.op = "<" /\ x < c.bound
       \/ c.op = ">" /\ x > c.bound

check(rule, reading) ==
    IF reading.sensor_type # rule.sensor_type THEN FALSE
    ELSE Condition(rule.condition, reading.value)

create_alert(rule, reading) ==
    [timestamp |-> reading.timestamp,
     sensor_id |-> OrDefault(reading.sensor_id, "unknown_sensor"),
     sensor_type |-> reading.sensor_type,
     rule_name |-> rule.name,
     severity |-> rule.severity,
     value |-> reading.value,
     threshold |-> rule.threshold,
     metadata |-> [rule_type |-> "threshold"]]

\* -------------------------------------------------------- RuleBasedDetector
\* Mutant: the two high-temperature rules registered in the other order.
DefaultRules_Swapped ==
    <<ThresholdRule("temp_very_low", "temperature", "<", Units(-5), Units(-5), "high"),
      ThresholdRule("temp_extreme_high", "temperature", ">", Units(30), Units(30), "medium"),
      ThresholdRule("temp_very_high", "temperature", ">", Units(35), Units(35), "high"),
      ThresholdRule("pressure_very_low", "pressure", "<", Units(950), Units(950), "medium"),
      ThresholdRule("pressure_very_high", "pressure", ">", Units(1050), Units(1050), "medium"),
      ThresholdRule("humidity_impossible_low", "humidity", "<", Units(0), Units(0), "critical"),
      ThresholdRule("humidity_impossible_high", "humidity", ">", Units(100), Units(100), "critical")>>

\* _setup_default_rules: the catalogue, in registration order.
DefaultRules ==
    <<ThresholdRule("temp_very_low", "temperature", "<", Units(-5), Units(-5), "high"),
      ThresholdRule("temp_very_high", "temperature", ">", Units(35), Units(35), "high"),
      ThresholdRule("temp_extreme_high", "temperature", ">", Units(30), Units(30), "medium"),
      ThresholdRule("pressure_very_low", "pressure", "<", Units(950), Units(950), "medium"),
      ThresholdRule("pressure_very_high", "pressure", ">", Units(1050), Units(1050), "medium"),
      ThresholdRule("humidity_impossible_low", "humidity", "<", Units(0), Units(0), "critical"),
      ThresholdRule("humidity_impossible_high", "humidity", ">", Units(100), Units(100), "critical")>>

add_rule(rs, rule) == Append(rs, rule)

\* Mutant: only the first rule of that name is removed.
RECURSIVE remove_rule_FirstOnly(_, _)
remove_rule_FirstOnly(rs, rule_name) ==
    IF rs = <<>> THEN <<>>
    ELSE IF Head(rs).name # rule_name
         THEN <<Head(rs)>> \o remove_rule_FirstOnly(Tail(rs), rule_name)
         ELSE Tail(rs)

\* self.rules = [r for r in self.rules if r.name != rule_name]
RECURSIVE remove_rule(_, _)
remove_rule(rs, rule_name) ==
    IF rs = <<>> THEN <<>>
    ELSE IF Head(rs).name # rule_name
         THEN <<Head(rs)>> \o remove_rule(Tail(rs), rule_name)
         ELSE remove_rule(Tail(rs), rule_name)

\* Mutant: the loop stops at the first rule that fires.
RECURSIVE RuleBasedDetector_process_reading_FirstOnly(_, _)
RuleBasedDetector_process_reading_FirstOnly(rs, reading) ==
    IF rs = <<>> THEN <<>>
    ELSE IF check(Head(rs), reading)
         THEN <<create_alert(Head(rs), reading)>>
         ELSE RuleBasedDetector_process_reading_FirstOnly(Tail(rs), reading)

\* RuleBasedDetector.process_reading: the alerts returned for a reading
\* under the rules rs; the call changes nothing of the detector.
RECURSIVE RuleBasedDetector_process_reading(_, _)
RuleBasedDetector_process_reading(rs, reading) ==
    IF rs = <<>> THEN <<>>
    ELSE IF check(Head(rs), reading)
         THEN <<create_alert(Head(rs), reading)>>
                  \o RuleBasedDetector_process_reading(Tail(rs), reading)
         ELSE RuleBasedDetector_process_reading(Tail(rs), reading)

\* --------------------------------------------------------------- BaseSensor
\* Fractions (noise level, malfunction probability, quality) count
\* two-hundredths, so that p per cent is Units(p); the drift factor, a
\* percentage of the range per day, counts half per cent; time counts days.
One == Units(100)

BaseSensor(sensor_id, sensor_type, now) ==
    [sensor_id |-> sensor_id, sensor_type |-> sensor_type,
     range_min |-> Units(0), range_max |-> Units(100),
     calibration_date |-> now,
     is_active |-> FALSE, last_reading |-> <<>>, reading_count |-> 0,
     drift_factor |-> 0, noise_level |-> Units(1), malfunction_probability |-> 0]

activate(s) == [s EXCEPT !.is_active = TRUE]
deactivate(s) == [s EXCEPT !.is_active = FALSE]
\* Mutant: the noise level is stored as passed.
set_noise_level_NoClamp(s, noise_level) == [s EXCEPT !.noise_level = noise_level]

set_noise_level(s, noise_level) ==
    [s EXCEPT !.noise_level = Max(0, Min(One, noise_level))]
set_drift_factor(s, drift_factor) == [s EXCEPT !.drift_factor = drift_factor]
set_malfunction_probability(s, probability) ==
    [s EXCEPT !.malfunction_probability = Max(0, Min(One, probability))]

\* Mutant: the noise is added also at noise level 0.
apply_noise_Always(s, value, noise) == value + noise

\* value + noise, the noise a draw of the Gaussian
apply_noise(s, value, noise) == IF s.noise_level <= 0 THEN value ELSE value + noise

\* drift_factor * days since calibration * range / 100, days by the wall clock
apply_drift(s, value, now) ==
    IF s.drift_factor = 0 THEN value
    ELSE value + (s.drift_factor * (now - s.calibration_date)
                     * (s.range_max - s.range_min)) \div One

\* random() < malfunction_probability
check_malfunction(s, roll) == roll < s.malfunction_probability

\* Mutant: only the lower end of the range is enforced.
clamp_to_range_LowerOnly(s, value) == Max(s.range_min, value)

clamp_to_range(s, value) == Max(s.range_min, Min(s.range_max, value))

calibrate(s, reference_value, actual_value, now) ==
    [s EXCEPT !.drift_factor =
                  (-(actual_value - reference_value) * One) \div (s.range_max - s.range_min),
              !.calibration_date = now]

\* A reading as read() builds it: SensorReading with quality and metadata.
Reading(value, timestamp, s, quality, metadata) ==
    [value |-> value, timestamp |-> timestamp, sensor_id |-> s.sensor_id,
     sensor_type |-> s.sensor_type, quality |-> quality, metadata |-> metadata]

\* Mutant: no check of the active flag.
BaseSensor_read_NoActiveCheck(s, now, timestamp, roll, base_value, noise) ==
    LET reading ==
            IF check_malfunction(s, roll)
            THEN Reading(NaN, timestamp, s, 0, [malfunction |-> TRUE])
            ELSE Reading(clamp_to_range(s, apply_noise(s, apply_drift(s, base_value, now), noise)),
                         timestamp, s,
                         Max(0, One - s.noise_level - Abs(s.drift_factor)),
                         [malfunction |-> FALSE,
                          base_value |-> base_value,
                          drift_applied |-> apply_drift(s, base_value, now) - base_value,
                          noise_level |-> s.noise_level])
    IN  [outcome |-> "ok",
         reading |-> <<reading>>,
         sensor |-> [s EXCEPT !.last_reading = <<reading>>,
                              !.reading_count = s.reading_count + 1]]

\* Mutant: a malfunction reading is returned without being counted.
BaseSensor_read_MalfunctionNotCounted(s, now, timestamp, roll, base_value, noise) ==
    LET out == BaseSensor_read_NoActiveCheck(s, now, timestamp, roll, base_value, noise)
    IN  IF ~s.is_active THEN [outcome |-> "error", reading |-> <<>>, sensor |-> s]
        ELSE IF check_malfunction(s, roll)
        THEN [out EXCEPT !.sensor = [s EXCEPT !.last_reading = out.reading]]
        ELSE out

\* BaseSensor.read(timestamp) at wall-clock time now, with this call's
\* draws: the malfunction roll, the base value _generate_base_value
\* returns and the noise.  outcome "error" is the RuntimeError.
BaseSensor_read(s, now, timestamp, roll, base_value, noise) ==
    IF ~s.is_active
    THEN [outcome |-> "error", reading |-> <<>>, sensor |-> s]
    ELSE LET value_with_drift == apply_drift(s, base_value, now)
             value_with_noise == apply_noise(s, value_with_drift, noise)
             final_value == clamp_to_range(s, value_with_noise)
             quality == Max(0, One - s.noise_level - Abs(s.drift_factor))
             reading ==
                 IF check_malfunction(s, roll)
                 THEN Reading(NaN, timestamp, s, 0, [malfunction |-> TRUE])
                 ELSE Reading(final_value, timestamp, s, quality,
                              [malfunction |-> FALSE,
                               base_value |-> base_value,
                               drift_applied |-> value_with_drift - base_value,
                               noise_level |-> s.noise_level])
         IN  [outcome |-> "ok",
              reading |-> <<reading>>,
              sensor |-> [s EXCEPT !.last_reading = <<reading>>,
                                   !.reading_count = s.reading_count + 1]]

\* ------------------------------------------------------------ HumiditySensor
\* _location_characteristics: base humidity and the seasonal and daily
\* ranges in half per cent, the rain sensitivity in two-hundredths.
LocationCharacteristics(location_type) ==
    CASE location_type = "coastal" ->
             [base_humidity |-> Units(70), seasonal_range |-> Units(15),
              daily_range |-> Units(20), rain_sensitivity |-> Units(120)]
      [] location_type = "inland" ->
             [base_humidity |-> Units(50), seasonal_range |-> Units(25),
              daily_range |-> Units(30), rain_sensitivity |-> Units(150)]
      [] location_type = "tropical" ->
             [base_humidity |-> Units(80), seasonal_range |-> Units(10),
              daily_range |-> Units(15), rain_sensitivity |-> Units(80)]
      [] location_type = "arid" ->
             [base_humidity |-> Units(30), seasonal_range |-> Units(20),
              daily_range |-> Units(35), rain_sensitivity |-> Units(200)]
      [] OTHER ->
             [base_humidity |-> Units(60), seasonal_range |-> Units(20),
              daily_range |-> Units(25), rain_sensitivity |-> Units(100)]

\* HumiditySensor(sensor_id, location_type=...) with the other defaults.
HumiditySensor(sensor_id, location_type, now) ==
    BaseSensor(sensor_id, "humidity", now) @@
    [base_humidity |-> LocationCharacteristics(location_type).base_humidity,
     temperature_coupling |-> Units(70),
     weather_sensitivity |-> Units(50),
     location_type |-> location_type,
     current_temperature |-> Units(20),
     weather_humidity_offset |-> 0,
     last_weather_update |-> now]

set_current_temperature(s, temperature) == [s EXCEPT !.current_temperature = temperature]

\* weather_effects.get(condition.lower(), 0.0)
WeatherEffect(condition) ==
    CASE condition = "sunny" -> Units(-15)
      [] condition = "cloudy" -> Units(5)
      [] condition = "rainy" -> Units(25)
      [] condition = "stormy" -> Units(30)
      [] condition = "foggy" -> Units(35)
      [] condition = "windy" -> Units(-10)
      [] condition = "dry" -> Units(-20)
      [] condition = "humid" -> Units(20)
      [] OTHER -> 0

\* base_effect * intensity * weather_sensitivity * rain_sensitivity, the
\* intensity in two-hundredths.
set_weather_condition(s, condition, intensity, now) ==
    [s EXCEPT !.weather_humidity_offset =
                  (((((WeatherEffect(condition) * intensity) \div One)
                       * s.weather_sensitivity) \div One)
                    * LocationCharacteristics(s.location_type).rain_sensitivity)
                  \div One,
              !.last_weather_update = now]

\* The temperatures at which the Magnus formula raises: b + temperature is
\* zero at -237.7 and the exponent overflows just below it.
MagnusRaises(temperature) == temperature = Units(-240)

\* ref_sat_pressure / sat_vapour_pressure in two-hundredths, at the
\* temperatures the model uses; 1.0 when the saturation pressure is not
\* positive (a not-a-number temperature compares false).
MagnusRatio(temperature) ==
    CASE temperature = Units(-40) -> 25155
      [] temperature = Units(0) -> 764
      [] temperature = Units(20) -> One
      [] temperature = Units(30) -> 110
      [] temperature = Units(40) -> 64
      [] temperature = Units(60) -> 24
      [] OTHER -> One

\* (temp_ratio - 1.0) * 100 * temperature_coupling
calculate_psychrometric_humidity(s, temperature) ==
    ((MagnusRatio(temperature) - One) * s.temperature_coupling) \div One

\* seasonal_cycle * seasonal_range / 4 (tropical, coastal) or / 2, the
\* cycle a cosine of the day of the year, in two-hundredths.
calculate_seasonal_humidity(s, seasonal_cycle) ==
    IF s.location_type \in {"tropical", "coastal"}
    THEN (seasonal_cycle * LocationCharacteristics(s.location_type).seasonal_range)
             \div (One * 4)
    ELSE (seasonal_cycle * LocationCharacteristics(s.location_type).seasonal_range)
             \div (One * 2)

\* daily_cycle * daily_range / 2, the cycle a cosine of the hour.
calculate_daily_humidity_cycle(s, daily_cycle) ==
    (daily_cycle * LocationCharacteristics(s.location_type).daily_range) \div (One * 2)

\* The weather offset is re-rolled to base_change when more than the drawn
\* interval (30 to 180 minutes) has passed since the last update.
update_weather_influence(s, timestamp, update_interval, base_change) ==
    IF timestamp - s.last_weather_update > update_interval
    THEN [s EXCEPT !.weather_humidity_offset = base_change,
                   !.last_weather_update = timestamp]
    ELSE s

\* Mutant: the sum of the influences is returned as it is.
HumiditySensor_generate_base_value_NoClamp(s, timestamp, update_interval, base_change, seasonal_cycle, daily_cycle) ==
    LET updated == update_weather_influence(s, timestamp, update_interval, base_change)
    IN  [outcome |-> "ok",
         value |-> updated.base_humidity
                   + calculate_psychrometric_humidity(updated, updated.current_temperature)
                   + calculate_seasonal_humidity(updated, seasonal_cycle)
                   + calculate_daily_humidity_cycle(updated, daily_cycle)
                   + updated.weather_humidity_offset,
         sensor |-> updated]

\* HumiditySensor._generate_base_value with this call's draws; it raises,
\* after the weather update, when the Magnus formula does.
HumiditySensor_generate_base_value(s, timestamp, update_interval, base_change, seasonal_cycle, daily_cycle) ==
    LET updated == update_weather_influence(s, timestamp, update_interval, base_change)
        humidity == updated.base_humidity
                    + calculate_psychrometric_humidity(updated, updated.current_temperature)
                    + calculate_seasonal_humidity(updated, seasonal_cycle)
                    + calculate_daily_humidity_cycle(updated, daily_cycle)
                    + updated.weather_humidity_offset
    IN  IF MagnusRaises(updated.current_temperature)
        THEN [outcome |-> "error", value |-> NaN, sensor |-> updated]
        ELSE [outcome |-> "ok", value |-> Max(0, Min(Units(100), humidity)),
              sensor |-> updated]

\* read() of a HumiditySensor: BaseSensor.read with the humidity base value.
HumiditySensor_read(s, now, timestamp, roll, noise, update_interval, base_change, seasonal_cycle, daily_cycle) ==
    IF ~s.is_active \/ check_malfunction(s, roll)
    THEN BaseSensor_read(s, now, timestamp, roll, NaN, noise) @@ [generated |-> <<>>]
    ELSE LET gen == HumiditySensor_generate_base_value(
                        s, timestamp, update_interval, base_change,
                        seasonal_cycle, daily_cycle)
         IN  IF gen.outcome = "error"
             THEN [outcome |-> "error", reading |-> <<>>, sensor |-> gen.sensor,
                   generated |-> <<>>]
             ELSE BaseSensor_read(gen.sensor, now, timestamp, roll, gen.value, noise)
                  @@ [generated |-> <<gen.value>>]

\* ------------------------------------------------------------ DataGenerator
\* Simulated time counts seconds.
SensorNetwork(update_interval, temperature_coupling) ==
    [location |-> "Sydney", location_type |-> "coastal",
     update_interval |-> update_interval,
     temperature_coupling |-> temperature_coupling,
     weather_sync |-> TRUE]

\* str.lower(), on the names the model passes: only the letters change.
Lower(name) ==
    CASE name = "Humidity" -> "humidity"
      [] name = "Temperature" -> "temperature"
      [] name = "Pressure" -> "pressure"
      [] name = "Sydney" -> "sydney"
      [] name = "Darwin" -> "darwin"
      [] name = "Alice Springs" -> "alice springs"
      [] OTHER -> name

\* The weather offsets are kept in thousandths of a unit, the intensity
\* and the influence factors in two-hundredths.
\* TemperatureSensor(sensor_id) with the other defaults.
TemperatureSensor(sensor_id, now) ==
    [BaseSensor(sensor_id, "temperature", now)
        EXCEPT !.range_min = Units(-40), !.range_max = Units(60)]
    @@ [weather_influence |-> Units(30),
        weather_offset |-> 0,
        weather_change_time |-> now]

\* weather_effects.get(condition.lower(), 0.0) of the temperature sensor
TemperatureWeatherEffect(condition) ==
    CASE condition = "sunny" -> 3000
      [] condition = "cloudy" -> -1000
      [] condition = "rainy" -> -2500
      [] condition = "windy" -> -1500
      [] condition = "stormy" -> -3000
      [] condition = "clear_night" -> -2000
      [] OTHER -> 0

\* base_effect * intensity * weather_influence
set_weather_conditions(s, condition, intensity, now) ==
    [s EXCEPT !.weather_offset =
                  (((TemperatureWeatherEffect(condition) * intensity) \div One)
                     * s.weather_influence) \div One,
              !.weather_change_time = now]

\* Mutant: the offset is re-rolled at every read.
TemperatureSensor_update_weather_influence_Always(s, timestamp, change_interval, weather_offset) ==
    [s EXCEPT !.weather_offset = weather_offset, !.weather_change_time = timestamp]

\* The weather offset is re-rolled to the drawn weather_offset when more
\* than the drawn change_interval (30 to 120 minutes) lies between the
\* time of the last change and the timestamp of the read.
TemperatureSensor_update_weather_influence(s, timestamp, change_interval, weather_offset) ==
    IF timestamp - s.weather_change_time > change_interval
    THEN [s EXCEPT !.weather_offset = weather_offset, !.weather_change_time = timestamp]
    ELSE s

\* read() of a TemperatureSensor: the weather update of
\* _generate_base_value, then BaseSensor.read with the base value drawn for
\* the sum of the influences after the thermal mass.
TemperatureSensor_read(s, now, timestamp, roll, base_value, noise, change_interval, weather_offset) ==
    IF ~s.is_active \/ check_malfunction(s, roll)
    THEN BaseSensor_read(s, now, timestamp, roll, base_value, noise)
    ELSE BaseSensor_read(
             TemperatureSensor_update_weather_influence(s, timestamp, change_interval,
                                                        weather_offset),
             now, timestamp, roll, base_value, noise)

\* PressureSensor(sensor_id) with the other defaults.
PressureSensor(sensor_id, now) ==
    [BaseSensor(sensor_id, "pressure", now)
        EXCEPT !.range_min = Units(800), !.range_max = Units(1100)]
    @@ [weather_variability |-> Units(30),
        weather_pressure_offset |-> 0,
        last_weather_update |-> now]

\* weather_effects.get(system_type.lower(), 0.0) of the pressure sensor
PressureWeatherEffect(system_type) ==
    CASE system_type = "high" -> 15000
      [] system_type = "low" -> -20000
      [] system_type = "front_cold" -> -12000
      [] system_type = "front_warm" -> -5000
      [] system_type = "cyclone" -> -40000
      [] system_type = "anticyclone" -> 25000
      [] OTHER -> 0

\* base_effect * intensity * weather_variability
simulate_weather_system(s, system_type, intensity, now) ==
    [s EXCEPT !.weather_pressure_offset =
                  (((PressureWeatherEffect(system_type) * intensity) \div One)
                     * s.weather_variability) \div One,
              !.last_weather_update = now]

\* The pressure offset is re-rolled when more than the drawn interval (1
\* to 6 hours) has passed since the last update.
update_weather_patterns(s, timestamp, update_interval, weather_base_change) ==
    IF timestamp - s.last_weather_update > update_interval
    THEN [s EXCEPT !.weather_pressure_offset = weather_base_change,
                   !.last_weather_update = timestamp]
    ELSE s

\* read() of a PressureSensor, as that of a TemperatureSensor.
PressureSensor_read(s, now, timestamp, roll, base_value, noise, update_interval, weather_base_change) ==
    IF ~s.is_active \/ check_malfunction(s, roll)
    THEN BaseSensor_read(s, now, timestamp, roll, base_value, noise)
    ELSE BaseSensor_read(
             update_weather_patterns(s, timestamp, update_interval, weather_base_change),
             now, timestamp, roll, base_value, noise)

\* DataGenerator(config): the three sensors, activated.
DataGenerator(config, now) ==
    [config |-> config,
     temperature_sensor |->
         activate(TemperatureSensor("temp_" \o Lower(config.location), now)),
     pressure_sensor |->
         activate(PressureSensor("pressure_" \o Lower(config.location), now)),
     humidity_sensor |->
         activate(HumiditySensor("humidity_" \o Lower(config.location),
                                 config.location_type, now))]

\* pressure_weather_map.get(weather_condition, 'high')
PressureWeatherMap(weather_condition) ==
    CASE weather_condition = "sunny" -> "high"
      [] weather_condition = "cloudy" -> "front_warm"
      [] weather_condition = "rainy" -> "low"
      [] weather_condition = "stormy" -> "cyclone"
      [] weather_condition = "windy" -> "front_cold"
      [] OTHER -> "high"

\* Mutant: the humidity sensor is left out of the synchronisation.
synchronise_weather_NoHumidity(g, weather_condition, intensity, now) ==
    IF g.config.weather_sync
    THEN [g EXCEPT !.temperature_sensor =
                       set_weather_conditions(@, weather_condition, intensity, now),
                   !.pressure_sensor =
                       simulate_weather_system(@, PressureWeatherMap(weather_condition),
                                               intensity, now)]
    ELSE g

\* DataGenerator._synchronise_weather
synchronise_weather(g, weather_condition, intensity, now) ==
    IF g.config.weather_sync
    THEN [g EXCEPT !.temperature_sensor =
                       set_weather_conditions(@, weather_condition, intensity, now),
                   !.pressure_sensor =
                       simulate_weather_system(@, PressureWeatherMap(weather_condition),
                                               intensity, now),
                   !.humidity_sensor =
                       set_weather_condition(@, weather_condition, intensity, now)]
    ELSE g

\* DataGenerator.set_weather
set_weather(g, condition, intensity, now) == synchronise_weather(g, condition, intensity, now)

\* No stream has been requested.
NoStream == [kind |-> "none"]

\* The generator object a call of a stream function returns: no line of the
\* function has run yet.  duration and start_time are <<>> when not passed.
NewStream(kind, sensor_type, duration, start_time, time_step) ==
    [kind |-> kind, sensor_type |-> sensor_type, duration |-> duration,
     start_time |-> start_time, time_step |-> time_step,
     pc |-> "created", origin |-> <<>>, current_time |-> 0, end_time |-> <<>>,
     timestamps |-> <<>>, item |-> <<>>, input |-> <<>>]

\* `x if duration_seconds else None`: None and 0 are falsy.
Falsy(duration) == duration = <<>> \/ duration = <<0>>

\* The suspended function resumes: at its first line when it was created,
\* after its yield (current_time += step) when it is running.
ResumeAt(st, now, step) ==
    IF st.pc = "created"
    THEN IF st.start_time = <<>> THEN now ELSE st.start_time[1]
    ELSE st.current_time + step

EndTime(st, current) ==
    IF st.pc = "created"
    THEN IF Falsy(st.duration) THEN <<>> ELSE <<current + st.duration[1]>>
    ELSE st.end_time

\* The function returns (StopIteration).
Stopped(st, current, end_time) ==
    [st EXCEPT !.pc = "done", !.current_time = current, !.end_time = end_time,
               !.origin = IF st.pc = "created" THEN <<current>> ELSE @,
               !.item = <<>>, !.input = <<>>]

\* The function yields item at simulated time current; input is the
\* humidity sensor's current temperature when it was read for the item.
Yielded(st, current, end_time, item, input) ==
    [st EXCEPT !.pc = "running", !.current_time = current, !.end_time = end_time,
               !.origin = IF st.pc = "created" THEN <<current>> ELSE @,
               !.timestamps = Append(@, current), !.item = <<item>>,
               !.input = input]

\* Mutant: the humidity sensor is read before the temperature is pushed.
ReadGroup_PushAfterRead(g, t, now, d) ==
    LET temp == TemperatureSensor_read(g.temperature_sensor, now, t, d.roll, d.temperature,
                                       d.noise, d.change_interval, d.weather_offset)
        pressure == PressureSensor_read(g.pressure_sensor, now, t, d.roll, d.pressure,
                                        d.noise, d.pressure_interval, d.pressure_offset)
        coupled == g.humidity_sensor
        humidity == HumiditySensor_read(coupled, now, t, d.roll, d.noise, d.interval,
                                        d.base_change, d.seasonal_cycle, d.daily_cycle)
    IN  [generator |-> [g EXCEPT !.temperature_sensor = temp.sensor,
                                 !.pressure_sensor = pressure.sensor,
                                 !.humidity_sensor =
                                     IF g.config.temperature_coupling
                                     THEN set_current_temperature(humidity.sensor,
                                                                  temp.reading[1].value)
                                     ELSE humidity.sensor],
         item |-> [timestamp |-> t, temperature |-> temp.reading[1],
                   pressure |-> pressure.reading[1],
                   humidity |-> humidity.reading[1]],
         input |-> <<coupled.current_temperature>>]

\* Mutant: the humidity reading is stamped with the time of the next group.
ReadGroup_HumidityLate(g, t, now, d) ==
    LET temp == TemperatureSensor_read(g.temperature_sensor, now, t, d.roll, d.temperature,
                                       d.noise, d.change_interval, d.weather_offset)
        pressure == PressureSensor_read(g.pressure_sensor, now, t, d.roll, d.pressure,
                                        d.noise, d.pressure_interval, d.pressure_offset)
        coupled == IF g.config.temperature_coupling
                   THEN set_current_temperature(g.humidity_sensor, temp.reading[1].value)
                   ELSE g.humidity_sensor
        humidity == HumiditySensor_read(coupled, now, t + g.config.update_interval,
                                        d.roll, d.noise, d.interval,
                                        d.base_change, d.seasonal_cycle, d.daily_cycle)
    IN  [generator |-> [g EXCEPT !.temperature_sensor = temp.sensor,
                                 !.pressure_sensor = pressure.sensor,
                                 !.humidity_sensor = humidity.sensor],
         item |-> [timestamp |-> t, temperature |-> temp.reading[1],
                   pressure |-> pressure.reading[1],
                   humidity |-> humidity.reading[1]],
         input |-> <<coupled.current_temperature>>]

\* One coordinated group of readings at simulated time t, with the draws d
\* of this tick: temperature, pressure, the coupling, humidity.
ReadGroup(g, t, now, d) ==
    LET temp == TemperatureSensor_read(g.temperature_sensor, now, t, d.roll, d.temperature,
                                       d.noise, d.change_interval, d.weather_offset)
        pressure == PressureSensor_read(g.pressure_sensor, now, t, d.roll, d.pressure,
                                        d.noise, d.pressure_interval, d.pressure_offset)
        coupled == IF g.config.temperature_coupling
                   THEN set_current_temperature(g.humidity_sensor, temp.reading[1].value)
                   ELSE g.humidity_sensor
        humidity == HumiditySensor_read(coupled, now, t, d.roll, d.noise, d.interval,
                                        d.base_change, d.seasonal_cycle, d.daily_cycle)
    IN  [generator |-> [g EXCEPT !.temperature_sensor = temp.sensor,
                                 !.pressure_sensor = pressure.sensor,
                                 !.humidity_sensor = humidity.sensor],
         item |-> [timestamp |-> t, temperature |-> temp.reading[1],
                   pressure |-> pressure.reading[1],
                   humidity |-> humidity.reading[1]],
         input |-> <<coupled.current_temperature>>]

\* next() on stream_readings(duration_seconds, start_time)
stream_readings(g, st, now, d) ==
    LET current == ResumeAt(st, now, g.config.update_interval)
        end_time == EndTime(st, current)
    IN  IF end_time # <<>> /\ current >= end_time[1]
        THEN [generator |-> g, stream |-> Stopped(st, current, end_time)]
        ELSE LET group == ReadGroup(g, current, now, d)
             IN  [generator |-> group.generator,
                  stream |-> Yielded(st, current, end_time, group.item, group.input)]

\* One reading of the requested sensor at simulated time t, the temperature
\* read and pushed first when the sensor is the humidity sensor.
ReadSingle(g, sensor_type, t, now, d) ==
    IF Lower(sensor_type) = "temperature"
    THEN LET temp == TemperatureSensor_read(g.temperature_sensor, now, t, d.roll, d.temperature,
                                       d.noise, d.change_interval, d.weather_offset)
         IN  [generator |-> [g EXCEPT !.temperature_sensor = temp.sensor],
              item |-> temp.reading[1], input |-> <<>>]
    ELSE IF Lower(sensor_type) = "pressure"
    THEN LET pressure == PressureSensor_read(g.pressure_sensor, now, t, d.roll, d.pressure,
                                        d.noise, d.pressure_interval, d.pressure_offset)
         IN  [generator |-> [g EXCEPT !.pressure_sensor = pressure.sensor],
              item |-> pressure.reading[1], input |-> <<>>]
    ELSE LET temp == TemperatureSensor_read(g.temperature_sensor, now, t, d.roll, d.temperature,
                                       d.noise, d.change_interval, d.weather_offset)
             coupled == IF g.config.temperature_coupling
                        THEN set_current_temperature(g.humidity_sensor, temp.reading[1].value)
                        ELSE g.humidity_sensor
             humidity == HumiditySensor_read(coupled, now, t, d.roll, d.noise, d.interval,
                                             d.base_change, d.seasonal_cycle, d.daily_cycle)
         IN  [generator |-> [g EXCEPT !.temperature_sensor =
                                          IF g.config.temperature_coupling
                                          THEN temp.sensor ELSE @,
                                      !.humidity_sensor = humidity.sensor],
              item |-> humidity.reading[1],
              input |-> <<coupled.current_temperature>>]

\* next() on stream_single_sensor(sensor_type, duration_seconds, start_time);
\* an unknown sensor type raises ValueError at this first next().
stream_single_sensor(g, st, now, d) ==
    LET current == ResumeAt(st, now, g.config.update_interval)
        end_time == EndTime(st, current)
    IN  IF Lower(st.sensor_type) \notin {"temperature", "pressure", "humidity"}
        THEN [generator |-> g, stream |-> [st EXCEPT !.pc = "failed"]]
        ELSE IF end_time # <<>> /\ current >= end_time[1]
        THEN [generator |-> g, stream |-> Stopped(st, current, end_time)]
        ELSE LET single == ReadSingle(g, st.sensor_type, current, now, d)
             IN  [generator |-> single.generator,
                  stream |-> Yielded(st, current, end_time, single.item, single.input)]

\* next() on simulate_time_lapse(hours, time_compression): duration holds
\* hours * 3600 and time_step the time compression; it starts now.
simulate_time_lapse(g, st, now, d) ==
    LET current == IF st.pc = "created" THEN now ELSE st.current_time + st.time_step
        end_time == IF st.pc = "created" THEN <<now + st.duration[1]>> ELSE st.end_time
    IN  IF ~(current < end_time[1])
        THEN [generator |-> g, stream |-> Stopped(st, current, end_time)]
        ELSE LET group == ReadGroup(g, current, now, d)
             IN  [generator |-> group.generator,
                  stream |-> Yielded(st, current, end_time, group.item, group.input)]

\* ------------------------------------------------------------ AlertManager
\* The detectors a coordinator can hold, by AnomalyDetector name.
DetectorNames == {"rule_based", "z_score"}

add_detector(ds, d) == Append(ds, d)

\* detector.process_reading(reading) for the detector named d, on the
\* detectors' state: the rule catalogue rs and the z-score detector's
\* (size, thr, windows).
DetectorProcess(d, rs, size, thr, windows, reading) ==
    IF d = "rule_based"
    THEN [alerts |-> RuleBasedDetector_process_reading(rs, reading),
          sensor_windows |-> windows]
    ELSE LET out == ZScoreDetector_process_reading(size, thr, windows, reading)
         IN  [alerts |-> out.alerts, sensor_windows |-> out.sensor_windows]

\* Every registered detector in turn, its alerts appended to those of the
\* detectors before it.
RECURSIVE RunDetectors(_, _, _, _, _, _)
RunDetectors(ds, rs, size, thr, windows, reading) ==
    IF ds = <<>> THEN [alerts |-> <<>>, sensor_windows |-> windows]
    ELSE LET first == DetectorProcess(Head(ds), rs, size, thr, windows, reading)
             rest == RunDetectors(Tail(ds), rs, size, thr, first.sensor_windows, reading)
         IN  [alerts |-> first.alerts \o rest.alerts,
              sensor_windows |-> rest.sensor_windows]

\* Mutant: the call returns the whole history instead of its own alerts.
AlertManager_process_reading_ReturnsAll(ds, all, rs, size, thr, windows, reading) ==
    LET run == RunDetectors(ds, rs, size, thr, windows, reading)
    IN  [new_alerts |-> all \o run.alerts,
         all_alerts |-> all \o run.alerts,
         sensor_windows |-> run.sensor_windows]

\* AlertManager.process_reading: the alerts of this call, the history
\* (get_all_alerts) after it, and the z-score detector's windows after it.
AlertManager_process_reading(ds, all, rs, size, thr, windows, reading) ==
    LET run == RunDetectors(ds, rs, size, thr, windows, reading)
    IN  [new_alerts |-> run.alerts,
         all_alerts |-> all \o run.alerts,
         sensor_windows |-> run.sensor_windows]

\* ------------------------------------------------------------- state
VARIABLES
    window_size,      \* ZScoreDetector.window_size
    z_threshold,      \* ZScoreDetector.z_threshold
    sensor_windows,   \* ZScoreDetector.sensor_windows: key -> SensorWindow
    rules,            \* RuleBasedDetector.rules
    detectors,        \* AlertManager: the registered detectors, in order
    all_alerts,       \* AlertManager: the running history (get_all_alerts)
    history,          \* per key, the values of the readings processed, in order
    returned,         \* the alert lists the coordinator's calls returned, concatenated
    edits,            \* add_rule / remove_rule calls made so far
    env,              \* the caller: the sensors it feeds and how many readings it sends
    sensor,           \* a BaseSensor: its attributes
    now,              \* the wall clock (datetime.now()), in days
    read_errors,      \* read() calls that raised so far
    trace,            \* what the sensor's caller saw: the readings returned, the last calibration
    generator,        \* a DataGenerator: its configuration and its three sensors
    stream,           \* the stream requested from the generator: where it is suspended, what it yielded
    detect,           \* a run of detect_command: the lines consumed, the alerts file written so far
    last              \* the last call: its reading and what it returned

zvars == <<window_size, z_threshold, sensor_windows, history>>
mvars == <<detectors, all_alerts, returned>>
rvars == <<rules, edits>>
gvars == <<generator, stream>>
evars == <<env, detect>>
svars == <<sensor, now, read_errors, trace, gvars>>
vars == <<window_size, z_threshold, sensor_windows, rules, detectors, all_alerts,
          history, returned, edits, env, sensor, now, read_errors, trace,
          generator, stream, detect, last>>

NoCall == [op |-> "none"]
EmptyMap == [k \in {} |-> 0]

HistoryOf(key) == IF key \in DOMAIN history THEN history[key] ELSE <<>>

RECURSIVE TotalLen(_, _)
TotalLen(h, ks) ==
    IF ks = {} THEN 0
    ELSE LET k == CHOOSE x \in ks : TRUE IN Len(h[k]) + TotalLen(h, ks \ {k})
TotalProcessed == TotalLen(history, DOMAIN history)

\* The objects a specification does not use, as constructed.
InitNoZ ==
    /\ window_size = 10
    /\ z_threshold = 3
    /\ sensor_windows = EmptyMap
    /\ history = EmptyMap
InitNoRules == rules = DefaultRules /\ edits = 0
InitNoManager == detectors = <<>> /\ all_alerts = <<>> /\ returned = <<>>
\* Nothing read and nothing calibrated yet.
NoTrace == [reads |-> 0, reading |-> <<>>, calibration |-> <<>>]

\* detect_command has not been started.
NoDetect == [pc |-> "none"]
InitNoDetect == detect = NoDetect

InitNoGenerator ==
    /\ generator = DataGenerator(SensorNetwork(1, TRUE), 0)
    /\ stream = NoStream
InitNoSensor ==
    /\ sensor = BaseSensor("sensor_1", "generic", 0)
    /\ now = 0
    /\ read_errors = 0
    /\ trace = NoTrace
    /\ InitNoGenerator

\* ------------------------------------------- the statistical detector alone
\* The end-to-end scenario: window size 5, threshold 2.0, the readings
\* 23.0, 24.0, 22.5, 23.5, 24.5 and then 40.0.
ScenarioReadings == <<46, 48, 45, 47, 49, 80>>
ScenarioConfig == <<5, 2>>
ScenarioSensor ==
    [sensor_type |-> "temperature", sensor_id |-> "test_temp",
     values |-> {ScenarioReadings[i] : i \in 1..Len(ScenarioReadings)}]

\* Other (window_size, z_threshold) pairs a detector is constructed with:
\* the thresholds 2.0 and 3.0 (the default) and the edge 0.0, on small windows.
DetectorConfigs ==
    {<<0, 0>>, <<0, 3>>, <<1, 0>>, <<1, 3>>, <<2, 0>>, <<2, 2>>, <<2, 3>>,
     <<3, 2>>, <<3, 3>>}

\* The sensors that feed those detectors and the values they report
\* (23.0, 23.5, 24.0, 24.5 and 40.0 degrees; 1013.0 hPa).
ZSensors ==
    {[sensor_type |-> "temperature", sensor_id |-> "test_temp",
      values |-> {46, 47, 48, 49, 80}],
     [sensor_type |-> "pressure", sensor_id |-> "test_pressure", values |-> {2026}]}

InitZ ==
    /\ \/ /\ window_size = ScenarioConfig[1]
          /\ z_threshold = ScenarioConfig[2]
          /\ env = [sensors |-> {ScenarioSensor}, budget |-> Len(ScenarioReadings)]
       \/ \E c \in DetectorConfigs :
            /\ window_size = c[1]
            /\ z_threshold = c[2]
            /\ env = [sensors |-> ZSensors, budget |-> c[1] + Extra]
    /\ sensor_windows = EmptyMap
    /\ history = EmptyMap
    /\ InitNoRules
    /\ InitNoManager
    /\ InitNoSensor
    /\ InitNoDetect
    /\ last = NoCall

\* detector.process_reading(reading) on the z-score detector: the k-th
\* reading of a sensor carries the timestamp k.
ZProcess(s, v) ==
    LET key == s.sensor_type \o "_" \o IdStr(s.sensor_id)
        reading == SensorReading(v, Len(HistoryOf(key)) + 1, s.sensor_id, s.sensor_type)
        out == ZScoreDetector_process_reading(window_size, z_threshold, sensor_windows, reading)
    IN  /\ TotalProcessed < env.budget
        /\ sensor_windows' = out.sensor_windows
        /\ history' = [k \in DOMAIN history \cup {key} |->
                          IF k = key THEN Append(HistoryOf(key), v) ELSE history[k]]
        /\ last' = [op |-> "z", reading |-> reading, key |-> key, alerts |-> out.alerts,
                    scored |-> out.scored, scored_against |-> out.scored_against,
                    z_score |-> out.z_score]
        /\ UNCHANGED <<window_size, z_threshold, evars, rvars, mvars, svars>>

NextZ == \E s \in env.sensors : \E v \in s.values : ZProcess(s, v)

SpecZ == InitZ /\ [][NextZ]_vars

\* --------------------------------------------- the rule-based detector alone
\* The values a caller sends, in whole units: on and around every threshold
\* of the default catalogue, plus 30.5 and a malfunction reading.
RuleValues ==
    {Units(x) : x \in {-6, -5, 0, 20, 30, 35, 40, 100, 105,
                       940, 950, 1013, 1050, 1060}} \cup {61, NaN}
\* The sensors it sends them for; the last two without a sensor id.
RuleSensors ==
    {<<"temperature", "test_temp">>, <<"pressure", "test_pressure">>,
     <<"humidity", "test_humidity">>, <<"temperature", None>>, <<"generic", None>>}

\* Rules a caller registers at run time: a second rule under an existing
\* name, and a rule under a new name.
AddedRules ==
    {ThresholdRule("temp_very_high", "temperature", ">", Units(45), Units(45), "critical"),
     ThresholdRule("humidity_dry", "humidity", "<", Units(20), Units(20), "low")}
\* The names it removes rules by; the last one names no rule.
RemovedNames == {"temp_very_high", "pressure_very_low", "humidity_dry", "no_such_rule"}

InitRules ==
    /\ rules = DefaultRules
    /\ edits = 0
    /\ InitNoZ
    /\ InitNoManager
    /\ InitNoSensor
    /\ env = [sensors |-> {}, budget |-> 0]
    /\ InitNoDetect
    /\ last = NoCall

\* detector.process_reading(reading) on the rule-based detector.
RuleProcess(reading) ==
    /\ last' = [op |-> "rule", reading |-> reading, rules |-> rules,
                alerts |-> RuleBasedDetector_process_reading(rules, reading)]
    /\ UNCHANGED <<rvars, zvars, mvars, svars, evars>>

\* detector.add_rule(rule)
AddRule(rule) ==
    /\ edits < MaxEdits
    /\ rules' = add_rule(rules, rule)
    /\ edits' = edits + 1
    /\ UNCHANGED <<zvars, mvars, svars, evars, last>>

\* detector.remove_rule(rule_name)
RemoveRule(rule_name) ==
    /\ edits < MaxEdits
    /\ rules' = remove_rule(rules, rule_name)
    /\ edits' = edits + 1
    /\ UNCHANGED <<zvars, mvars, svars, evars, last>>

NextRules ==
    \/ \E v \in RuleValues, sn \in RuleSensors :
           RuleProcess(SensorReading(v, 1, sn[2], sn[1]))
    \/ \E rule \in AddedRules : AddRule(rule)
    \/ \E name \in RemovedNames : RemoveRule(name)

SpecRules == InitRules /\ [][NextRules]_vars

\* ------------------------------------------------------- the coordinator
\* The z-score detector's configurations behind a coordinator.
ManagerConfigs == {<<2, 2>>, <<1, 3>>}

\* The sensors that feed the coordinator: 23.0, 23.5 and 32.0 degrees,
\* 40.0 degrees; 1013.0 hPa.
ManagerSensors ==
    {[sensor_type |-> "temperature", sensor_id |-> "test_temp",
      values |-> {46, 47, 64, 80}],
     [sensor_type |-> "pressure", sensor_id |-> "test_pressure", values |-> {2026}]}

InitManager ==
    /\ detectors = <<>>
    /\ all_alerts = <<>>
    /\ returned = <<>>
    /\ \E c \in ManagerConfigs :
          /\ window_size = c[1]
          /\ z_threshold = c[2]
          /\ env = [sensors |-> ManagerSensors, budget |-> c[1] + Extra]
    /\ sensor_windows = EmptyMap
    /\ history = EmptyMap
    /\ InitNoRules
    /\ InitNoSensor
    /\ InitNoDetect
    /\ last = NoCall

InSeq(x, s) == \E i \in 1..Len(s) : s[i] = x

\* alert_manager.add_detector(detector), each detector once.
AddDetector(d) ==
    /\ ~InSeq(d, detectors)
    /\ detectors' = add_detector(detectors, d)
    /\ UNCHANGED <<all_alerts, returned, zvars, rvars, svars, evars, last>>

\* alert_manager.process_reading(reading)
ManagerProcess(s, v) ==
    LET key == s.sensor_type \o "_" \o IdStr(s.sensor_id)
        reading == SensorReading(v, Len(HistoryOf(key)) + 1, s.sensor_id, s.sensor_type)
        out == AlertManager_process_reading(detectors, all_alerts, rules, window_size,
                                            z_threshold, sensor_windows, reading)
    IN  /\ TotalProcessed < env.budget
        /\ all_alerts' = out.all_alerts
        /\ sensor_windows' = out.sensor_windows
        /\ returned' = returned \o out.new_alerts
        /\ history' = [k \in DOMAIN history \cup {key} |->
                          IF k = key THEN Append(HistoryOf(key), v) ELSE history[k]]
        /\ last' = [op |-> "manager", reading |-> reading, key |-> key,
                    alerts |-> out.new_alerts, detectors |-> detectors,
                    rules |-> rules, windows |-> sensor_windows,
                    before |-> all_alerts]
        /\ UNCHANGED <<window_size, z_threshold, detectors, rvars, svars, evars>>

NextManager ==
    \/ \E d \in DetectorNames : AddDetector(d)
    \/ \E s \in env.sensors : \E v \in s.values : ManagerProcess(s, v)

SpecManager == InitManager /\ [][NextManager]_vars

\* ------------------------------- the detectors on malfunction readings
\* A detector of window size 2 or 3 and threshold 2.0, fed by one sensor
\* whose readings are 23.0, 24.0, 40.0 and the malfunction value.
MalfunctionConfigs == {<<2, 2>>, <<3, 2>>}
MalfunctionSensor ==
    [sensor_type |-> "temperature", sensor_id |-> "test_temp",
     values |-> {46, 48, 80, NaN}]

InitMalfunction ==
    /\ \E c \in MalfunctionConfigs :
         /\ window_size = c[1]
         /\ z_threshold = c[2]
         /\ env = [sensors |-> {MalfunctionSensor}, budget |-> c[1] + Extra]
    /\ sensor_windows = EmptyMap
    /\ history = EmptyMap
    /\ InitNoRules
    /\ InitNoManager
    /\ InitNoSensor
    /\ InitNoDetect
    /\ last = NoCall

\* detector.process_reading(reading) on the z-score detector, for a reading
\* that may be a malfunction.  When stdev raises, the call ends before
\* window.add_reading: the window keeps what it held.
MalfunctionZProcess(s, v, outcome) ==
    LET key == s.sensor_type \o "_" \o IdStr(s.sensor_id)
        reading == SensorReading(v, Len(HistoryOf(key)) + 1, s.sensor_id, s.sensor_type)
        window == WindowFor(sensor_windows, window_size, key)
        out == ZScoreDetector_process_reading(window_size, z_threshold, sensor_windows, reading)
    IN  /\ TotalProcessed < env.budget
        /\ outcome \in (IF is_full(window) THEN StdevOutcomes(window) ELSE {"returned"})
        /\ sensor_windows' = IF outcome = "raised"
                             THEN [k \in DOMAIN sensor_windows \cup {key} |->
                                      IF k = key THEN window ELSE sensor_windows[k]]
                             ELSE out.sensor_windows
        /\ history' = [k \in DOMAIN history \cup {key} |->
                          IF k = key THEN Append(HistoryOf(key), v) ELSE history[k]]
        /\ last' = [op |-> "z", outcome |-> outcome, reading |-> reading, key |-> key,
                    alerts |-> IF outcome = "raised" THEN <<>> ELSE out.alerts,
                    scored |-> out.scored, scored_against |-> out.scored_against,
                    z_score |-> out.z_score]
        /\ UNCHANGED <<window_size, z_threshold, evars, rvars, mvars, svars>>

\* detector.process_reading(reading) on the rule-based detector, for the
\* same readings.
MalfunctionRuleProcess(s, v) ==
    LET key == s.sensor_type \o "_" \o IdStr(s.sensor_id)
        reading == SensorReading(v, Len(HistoryOf(key)) + 1, s.sensor_id, s.sensor_type)
    IN  /\ last' = [op |-> "rule", outcome |-> "returned", reading |-> reading,
                    rules |-> rules,
                    alerts |-> RuleBasedDetector_process_reading(rules, reading)]
        /\ UNCHANGED <<rvars, zvars, mvars, svars, evars>>

NextMalfunction ==
    \/ \E s \in env.sensors : \E v \in s.values : \E outcome \in {"raised", "returned"} :
         MalfunctionZProcess(s, v, outcome)
    \/ \E s \in env.sensors : \E v \in s.values : MalfunctionRuleProcess(s, v)

SpecMalfunction == InitMalfunction /\ [][NextMalfunction]_vars

\* ------------------------------------------- the detector and its reset
\* Detectors of window size 1, 2 and 3, fed by two sensors.
ResetConfigs == {<<1, 0>>, <<2, 2>>, <<3, 2>>}
ResetSensors ==
    {[sensor_type |-> "temperature", sensor_id |-> "test_temp", values |-> {46, 48, 80}],
     [sensor_type |-> "pressure", sensor_id |-> "test_pressure", values |-> {2026, 2100}]}

InitReset ==
    /\ \E c \in ResetConfigs :
         /\ window_size = c[1]
         /\ z_threshold = c[2]
         /\ env = [sensors |-> ResetSensors, budget |-> c[1] + Extra]
    /\ sensor_windows = EmptyMap
    /\ history = EmptyMap
    /\ InitNoRules
    /\ InitNoManager
    /\ InitNoSensor
    /\ InitNoDetect
    /\ last = NoCall

\* detector.process_reading(reading); history holds the readings
\* processed since the detector was constructed or reset, and since_reset
\* tells whether it was reset.
ResetZProcess(s, v) ==
    LET key == s.sensor_type \o "_" \o IdStr(s.sensor_id)
        reading == SensorReading(v, Len(HistoryOf(key)) + 1, s.sensor_id, s.sensor_type)
        out == ZScoreDetector_process_reading(window_size, z_threshold, sensor_windows, reading)
    IN  /\ TotalProcessed < env.budget
        /\ sensor_windows' = out.sensor_windows
        /\ history' = [k \in DOMAIN history \cup {key} |->
                          IF k = key THEN Append(HistoryOf(key), v) ELSE history[k]]
        /\ last' = [op |-> "z", reading |-> reading, key |-> key, alerts |-> out.alerts,
                    since_reset |-> last.op # "none" /\ last.since_reset]
        /\ UNCHANGED <<window_size, z_threshold, evars, rvars, mvars, svars>>

\* detector.reset(), on a detector that has processed a reading.
ZReset ==
    /\ last.op = "z"
    /\ ~last.since_reset
    /\ sensor_windows' = ZScoreDetector_reset(sensor_windows)
    /\ history' = EmptyMap
    /\ last' = [op |-> "reset", since_reset |-> TRUE, before |-> sensor_windows]
    /\ UNCHANGED <<window_size, z_threshold, evars, rvars, mvars, svars>>

NextReset ==
    \/ \E s \in env.sensors : \E v \in s.values : ResetZProcess(s, v)
    \/ ZReset

SpecReset == InitReset /\ [][NextReset]_vars

\* ------------------------------------------------ sensors and their keys
\* Sensors whose types or ids hold the separator, a sensor without an id
\* and one whose id is the text "None"; each reports 23.0, 24.0 or 40.0.
KeySensors ==
    {[sensor_type |-> st[1], sensor_id |-> st[2], values |-> {46, 48, 80}] :
        st \in {<<"temperature", "zone_1">>, <<"temperature_zone", "1">>,
                <<"temperature", None>>, <<"temperature", "None">>}}
KeyConfigs == {<<2, 2>>}

InitKeys ==
    /\ \E c \in KeyConfigs :
         /\ window_size = c[1]
         /\ z_threshold = c[2]
         /\ env = [sensors |-> KeySensors, budget |-> c[1] + Extra]
    /\ sensor_windows = EmptyMap
    /\ history = EmptyMap
    /\ InitNoRules
    /\ InitNoManager
    /\ InitNoSensor
    /\ InitNoDetect
    /\ last = NoCall

\* detector.process_reading(reading); history holds, per sensor (its type
\* and id), the values processed.
KeysProcess(s, v) ==
    LET pair == <<s.sensor_type, s.sensor_id>>
        reading == SensorReading(v, Len(HistoryOf(pair)) + 1, s.sensor_id, s.sensor_type)
        out == ZScoreDetector_process_reading(window_size, z_threshold, sensor_windows, reading)
    IN  /\ TotalProcessed < env.budget
        /\ sensor_windows' = out.sensor_windows
        /\ history' = [k \in DOMAIN history \cup {pair} |->
                          IF k = pair THEN Append(HistoryOf(pair), v) ELSE history[k]]
        /\ last' = [op |-> "z", reading |-> reading, key |-> get_sensor_key(reading),
                    alerts |-> out.alerts, scored |-> out.scored,
                    scored_against |-> out.scored_against]
        /\ UNCHANGED <<window_size, z_threshold, evars, rvars, mvars, svars>>

NextKeys == \E s \in env.sensors : \E v \in s.values : KeysProcess(s, v)

SpecKeys == InitKeys /\ [][NextKeys]_vars

\* ------------------------------------------------------- detect_command
\* What one line of the input file holds: text that is not JSON, JSON that
\* is not an object, or an object.  Of an object, its value and its
\* timestamp: <<>> when the key is missing, else the JSON type of the field,
\* a numeric value with its number, and "iso" for a string that
\* datetime.fromisoformat accepts.
Line(json, value, timestamp) == [json |-> json, value |-> value, timestamp |-> timestamp]

\* One pass of the loop body on a line: the exception it raises, or
\* "reading" when the line is processed.  The readings are temperature
\* readings, so that a value that is a string raises in the first rule's
\* comparison.
LineOutcome(line) ==
    IF line.json = "invalid" THEN "JSONDecodeError"
    ELSE IF line.json # "object" THEN "TypeError"
    ELSE IF line.value = <<>> THEN "KeyError"
    ELSE IF line.timestamp = <<>> THEN "KeyError"
    ELSE IF line.timestamp[1] = "number" THEN "TypeError"
    ELSE IF line.timestamp[1] = "string" THEN "ValueError"
    ELSE IF line.value[1] = "string" THEN "TypeError"
    ELSE "reading"

\* except (json.JSONDecodeError, KeyError, ValueError)
Caught(exception) == exception \in {"JSONDecodeError", "KeyError", "ValueError"}

\* The reading made of the line at position i of the file.
LineReading(line, i) == SensorReading(line.value[2], i, "test_temp", "temperature")

\* The lines an input file is made of: readings of 23.0 and 40.0 degrees,
\* text that is not JSON, a JSON array, records without a value, without a
\* timestamp, with a number or a non-ISO string as timestamp, and with a
\* string as value.
InputLines ==
    {Line("object", <<"number", v>>, <<"iso">>) : v \in {46, 80}}
    \cup {Line("invalid", <<>>, <<>>), Line("array", <<>>, <<>>),
          Line("object", <<>>, <<"iso">>), Line("object", <<"number", 46>>, <<>>),
          Line("object", <<"number", 46>>, <<"number">>),
          Line("object", <<"number", 46>>, <<"string">>),
          Line("object", <<"string">>, <<"iso">>)}

RECURSIVE Files(_)
Files(n) ==
    IF n = 0 THEN {<<>>}
    ELSE Files(n - 1) \cup {Append(f, l) : f \in {g \in Files(n - 1) : Len(g) = n - 1},
                                           l \in InputLines}

\* --window-size and --z-threshold
DetectArgs == {<<2, 2>>}

\* detect_command up to its loop: a coordinator with the rule-based and the
\* z-score detector, an input file and an empty alerts file.
InitDetect ==
    /\ \E a \in DetectArgs : window_size = a[1] /\ z_threshold = a[2]
    /\ sensor_windows = EmptyMap
    /\ history = EmptyMap
    /\ InitNoRules
    /\ detectors = add_detector(add_detector(<<>>, "rule_based"), "z_score")
    /\ all_alerts = <<>>
    /\ returned = <<>>
    /\ InitNoSensor
    /\ \E f \in Files(MaxLines) : env = [input |-> f]
    /\ detect = [pc |-> "running", position |-> 0, outfile |-> <<>>,
                 readings_count |-> 0, alerts_count |-> 0, error |-> None]
    /\ last = NoCall

\* One pass of `for line in infile`: the line is parsed, made a reading and
\* processed, its alerts written; an exception the handler names skips the
\* line, any other leaves detect_command.
DetectLine ==
    /\ detect.pc = "running"
    /\ detect.position < Len(env.input)
    /\ LET i == detect.position + 1
           line == env.input[i]
           outcome == LineOutcome(line)
           out == AlertManager_process_reading(detectors, all_alerts, rules, window_size,
                                               z_threshold, sensor_windows,
                                               LineReading(line, i))
       IN  IF outcome = "reading"
           THEN /\ sensor_windows' = out.sensor_windows
                /\ all_alerts' = out.all_alerts
                /\ returned' = returned \o out.new_alerts
                /\ detect' = [detect EXCEPT !.position = i,
                                            !.outfile = @ \o out.new_alerts,
                                            !.alerts_count = @ + Len(out.new_alerts),
                                            !.readings_count = @ + 1]
           ELSE /\ UNCHANGED <<sensor_windows, all_alerts, returned>>
                /\ detect' = IF Caught(outcome)
                             THEN [detect EXCEPT !.position = i]
                             ELSE [detect EXCEPT !.pc = "raised", !.error = outcome]
    /\ UNCHANGED <<window_size, z_threshold, history, detectors, rvars, svars, env, last>>

\* The file is exhausted: both files are closed and the totals printed.
DetectEnd ==
    /\ detect.pc = "running"
    /\ detect.position = Len(env.input)
    /\ detect' = [detect EXCEPT !.pc = "done"]
    /\ UNCHANGED <<zvars, mvars, rvars, svars, env, last>>

NextDetect == DetectLine \/ DetectEnd

SpecDetect == InitDetect /\ [][NextDetect]_vars

\* ------------------------------------------------------------ one sensor
\* What a caller passes and what the random sources draw.
BaseValues == {Units(-10), Units(50), Units(120)}
NoiseDraws == {1}
Rolls == {Units(50)}
ReadAhead == {1}
NoiseLevels == {Units(-50), Units(0), Units(150)}
DriftFactors == {1}
Probabilities == {Units(-50), Units(50), Units(150)}
References == {Units(50)}

InitSensor ==
    /\ sensor = BaseSensor("sensor_1", "generic", 0)
    /\ now = 0
    /\ read_errors = 0
    /\ trace = NoTrace
    /\ InitNoGenerator
    /\ InitNoZ
    /\ InitNoRules
    /\ InitNoManager
    /\ env = [sensors |-> {}, budget |-> 0]
    /\ InitNoDetect
    /\ last = NoCall

SensorFrame == UNCHANGED <<zvars, rvars, mvars, gvars, evars>>

Activate ==
    /\ ~sensor.is_active
    /\ sensor' = activate(sensor)
    /\ last' = NoCall
    /\ UNCHANGED <<now, read_errors, trace>> /\ SensorFrame

Deactivate ==
    /\ sensor.is_active
    /\ sensor' = deactivate(sensor)
    /\ last' = NoCall
    /\ UNCHANGED <<now, read_errors, trace>> /\ SensorFrame

\* sensor.read(now + ahead)
Read(ahead, roll, base_value, noise) ==
    LET out == BaseSensor_read(sensor, now, now + ahead, roll, base_value, noise)
    IN  /\ sensor.reading_count < MaxReads
        /\ (~sensor.is_active => read_errors < MaxErrors)
        /\ sensor' = out.sensor
        /\ read_errors' = IF out.outcome = "error" THEN read_errors + 1 ELSE read_errors
        /\ trace' = IF out.outcome = "error" THEN trace
                     ELSE [trace EXCEPT !.reads = trace.reads + 1,
                                        !.reading = out.reading]
        /\ last' = [op |-> "read", outcome |-> out.outcome, reading |-> out.reading,
                    generated |-> IF sensor.is_active /\ ~check_malfunction(sensor, roll)
                                  THEN <<base_value>> ELSE <<>>,
                    before |-> sensor]
        /\ UNCHANGED now /\ SensorFrame

SetNoiseLevel(x) ==
    /\ sensor' = set_noise_level(sensor, x)
    /\ sensor' # sensor
    /\ last' = NoCall
    /\ UNCHANGED <<now, read_errors, trace>> /\ SensorFrame

\* set_drift_factor configures a rate anew: the calibration before it no
\* longer says what the sensor reads.
SetDriftFactor(x) ==
    /\ sensor' = set_drift_factor(sensor, x)
    /\ sensor' # sensor
    /\ trace' = [trace EXCEPT !.calibration = <<>>]
    /\ last' = NoCall
    /\ UNCHANGED <<now, read_errors>> /\ SensorFrame

SetMalfunctionProbability(x) ==
    /\ sensor' = set_malfunction_probability(sensor, x)
    /\ sensor' # sensor
    /\ last' = NoCall
    /\ UNCHANGED <<now, read_errors, trace>> /\ SensorFrame

\* sensor.calibrate(reference, actual), the actual value the last reading's.
Calibrate(reference) ==
    /\ sensor.last_reading # <<>>
    /\ ~IsNaN(sensor.last_reading[1].value)
    /\ sensor' = calibrate(sensor, reference, sensor.last_reading[1].value, now)
    /\ trace' = [trace EXCEPT !.calibration =
                      <<[reference |-> reference, rate |-> sensor.drift_factor,
                         date |-> now]>>]
    /\ last' = NoCall
    /\ UNCHANGED <<now, read_errors>> /\ SensorFrame

\* A day passes.
Tick ==
    /\ now < MaxDays
    /\ now' = now + 1
    /\ last' = NoCall
    /\ UNCHANGED <<sensor, read_errors, trace>> /\ SensorFrame

NextSensor ==
    \/ Activate
    \/ Deactivate
    \/ \E a \in ReadAhead, r \in Rolls, b \in BaseValues, n \in NoiseDraws : Read(a, r, b, n)
    \/ \E x \in NoiseLevels : SetNoiseLevel(x)
    \/ \E x \in DriftFactors : SetDriftFactor(x)
    \/ \E x \in Probabilities : SetMalfunctionProbability(x)
    \/ \E r \in References : Calibrate(r)
    \/ Tick

SpecSensor == InitSensor /\ [][NextSensor]_vars

\* ------------------------------------------------- calibrating a sensor
\* The sensor of test_calibration.py: a constant base value of 50.0 on the
\* range 0..100, noise switched off, a drift rate of 0.5 % of the range per
\* day; it is read for the wall clock's instant or for two days later and
\* calibrated against the true value 50.0 or against 60.0.
DummyBaseValues == {Units(50)}
CalibrationAhead == {0, 2}
CalibrationReferences == {Units(50), Units(60)}

NextCalibration ==
    \/ Activate
    \/ SetNoiseLevel(Units(0))
    \/ \E x \in DriftFactors : SetDriftFactor(x)
    \/ \E a \in CalibrationAhead, r \in Rolls, b \in DummyBaseValues, n \in NoiseDraws :
           Read(a, r, b, n)
    \/ \E r \in CalibrationReferences : Calibrate(r)
    \/ Tick

SpecCalibration == InitSensor /\ [][NextCalibration]_vars

\* --------------------------------------------------- a humidity sensor
LocationTypes == {"coastal", "arid"}
Temperatures == {Units(-40), Units(40), NaN, Units(-240)}
WeatherConditions == {"foggy", "dry"}
Intensities == {Units(1000)}
\* A re-rolled weather offset.
WeatherDraws == {Units(70)}
\* The seasonal and the daily cosine, both at their lowest or both at their highest.
Cycles == {<<-One, -One>>, <<One, One>>}
HumidityNoise == {-1, 1}
\* The drawn interval between weather updates, 30 to 180 minutes, in days:
\* a timestamp a day later is past it, the same timestamp is not.
WeatherIntervalDays == {0}
HumidityAhead == {0, 1}

InitHumidity ==
    /\ \E lt \in LocationTypes : sensor = HumiditySensor("humidity_sydney", lt, 0)
    /\ now = 0
    /\ read_errors = 0
    /\ trace = NoTrace
    /\ InitNoGenerator
    /\ InitNoZ
    /\ InitNoRules
    /\ InitNoManager
    /\ env = [sensors |-> {}, budget |-> 0]
    /\ InitNoDetect
    /\ last = NoCall

SetCurrentTemperature(t) ==
    /\ sensor' = set_current_temperature(sensor, t)
    /\ sensor' # sensor
    /\ last' = NoCall
    /\ UNCHANGED <<now, read_errors, trace>> /\ SensorFrame

SetWeatherCondition(condition, intensity) ==
    /\ sensor' = set_weather_condition(sensor, condition, intensity, now)
    /\ sensor' # sensor
    /\ last' = NoCall
    /\ UNCHANGED <<now, read_errors, trace>> /\ SensorFrame

\* sensor.read(now + ahead) on the humidity sensor
HumidityRead(ahead, roll, noise, update_interval, base_change, seasonal_cycle, daily_cycle) ==
    LET out == HumiditySensor_read(sensor, now, now + ahead, roll, noise, update_interval,
                                   base_change, seasonal_cycle, daily_cycle)
    IN  /\ sensor.reading_count < MaxReads
        /\ (out.outcome = "error" => read_errors < MaxErrors)
        /\ sensor' = out.sensor
        /\ read_errors' = IF out.outcome = "error" THEN read_errors + 1 ELSE read_errors
        /\ trace' = IF out.outcome = "error" THEN trace
                     ELSE [trace EXCEPT !.reads = trace.reads + 1,
                                        !.reading = out.reading]
        /\ last' = [op |-> "humidity_read", outcome |-> out.outcome,
                    reading |-> out.reading, generated |-> out.generated,
                    before |-> sensor]
        /\ UNCHANGED now /\ SensorFrame

NextHumidity ==
    \/ Activate
    \/ \E t \in Temperatures : SetCurrentTemperature(t)
    \/ \E c \in WeatherConditions, i \in Intensities : SetWeatherCondition(c, i)
    \/ \E a \in HumidityAhead, r \in Rolls, n \in HumidityNoise, w \in WeatherDraws,
          i \in WeatherIntervalDays, c \in Cycles : HumidityRead(a, r, n, i, w, c[1], c[2])

SpecHumidity == InitHumidity /\ [][NextHumidity]_vars

\* ------------------------------------------------- streaming readings
\* Configurations: the seconds between groups and the coupling switch.
UpdateIntervals == {1, 2, -1}
\* duration_seconds and start_time as passed, <<>> when left out.
Durations == {<<>>, <<0>>, <<2>>, <<3>>}
StartTimes == {<<>>, <<10>>}
SingleTypes == {"temperature", "Humidity", "wind"}
\* simulate_time_lapse: hours * 3600 and the time compression.
LapseSeconds == {<<3600>>}
TimeCompressions == {1800, 3600}
\* What the sensors draw in one tick: only the temperature varies.
StreamTemperatures == {Units(20), Units(30)}
TickDraws ==
    {[roll |-> Units(50), noise |-> 1, temperature |-> t, pressure |-> Units(1013),
      change_interval |-> 1800, weather_offset |-> 600,
      pressure_interval |-> 3600, pressure_offset |-> 3000,
      interval |-> 1800, base_change |-> Units(10),
      seasonal_cycle |-> One, daily_cycle |-> One] : t \in StreamTemperatures}

InitStream ==
    /\ \E ui \in UpdateIntervals, c \in BOOLEAN :
           generator = DataGenerator(SensorNetwork(ui, c), 0)
    /\ stream = NoStream
    /\ sensor = BaseSensor("sensor_1", "generic", 0)
    /\ now = 0
    /\ read_errors = 0
    /\ trace = NoTrace
    /\ InitNoZ
    /\ InitNoRules
    /\ InitNoManager
    /\ env = [sensors |-> {}, budget |-> 0]
    /\ InitNoDetect
    /\ last = NoCall

StreamFrame == UNCHANGED <<zvars, rvars, mvars, sensor, now, read_errors, trace, evars, last>>

\* generator.stream_readings(duration_seconds, start_time)
StreamReadings(duration, start_time) ==
    /\ stream = NoStream
    /\ stream' = NewStream("readings", "", duration, start_time, 0)
    /\ UNCHANGED generator /\ StreamFrame

\* generator.stream_single_sensor(sensor_type, duration_seconds, start_time)
StreamSingleSensor(sensor_type, duration, start_time) ==
    /\ stream = NoStream
    /\ stream' = NewStream("single", sensor_type, duration, start_time, 0)
    /\ UNCHANGED generator /\ StreamFrame

\* generator.simulate_time_lapse(hours, time_compression)
SimulateTimeLapse(seconds, time_compression) ==
    /\ stream = NoStream
    /\ stream' = NewStream("time_lapse", "", seconds, <<>>, time_compression)
    /\ UNCHANGED generator /\ StreamFrame

\* next(stream): the function runs to its next yield or to its end.  A
\* consumer takes at most MaxItems items of a stream.
StreamNext(d) ==
    LET out == CASE stream.kind = "readings" -> stream_readings(generator, stream, now, d)
                 [] stream.kind = "single" -> stream_single_sensor(generator, stream, now, d)
                 [] OTHER -> simulate_time_lapse(generator, stream, now, d)
    IN  /\ stream.kind # "none"
        /\ stream.pc \in {"created", "running"}
        /\ (out.stream.pc = "running" => Len(stream.timestamps) < MaxItems)
        /\ generator' = out.generator
        /\ stream' = out.stream
        /\ StreamFrame

NextStream ==
    \/ \E du \in Durations, st \in StartTimes : StreamReadings(du, st)
    \/ \E ty \in SingleTypes, du \in Durations, st \in StartTimes :
           StreamSingleSensor(ty, du, st)
    \/ \E se \in LapseSeconds, tc \in TimeCompressions : SimulateTimeLapse(se, tc)
    \/ \E d \in TickDraws : StreamNext(d)

SpecStream == InitStream /\ [][NextStream]_vars

\* ------------------------------------- the weather offset along a stream
\* The wall-clock second at which the generator is constructed, one day
\* after the model's epoch.
ConstructedAt == 86400
\* Seconds between groups: 15, 45 and 75 minutes.
RerollIntervals == {900, 2700, 4500}
\* start_time as passed: left out (now), one day before the construction
\* and one day after it.
RerollStartTimes == {<<>>, <<0>>, <<172800>>}
\* np.random.uniform(30, 120) minutes: its two ends and one hour.
ChangeIntervals == {1800, 3600, 7200}
RerollDraws ==
    {[d EXCEPT !.change_interval = ci] : d \in TickDraws, ci \in ChangeIntervals}

InitReroll ==
    /\ now = ConstructedAt
    /\ \E ui \in RerollIntervals :
           generator = DataGenerator(SensorNetwork(ui, TRUE), now)
    /\ stream = NoStream
    /\ sensor = BaseSensor("sensor_1", "generic", 0)
    /\ read_errors = 0
    /\ trace = NoTrace
    /\ InitNoZ
    /\ InitNoRules
    /\ InitNoManager
    /\ env = [sensors |-> {}, budget |-> 0]
    /\ InitNoDetect
    /\ last = NoCall

RerollFrame == UNCHANGED <<zvars, rvars, mvars, sensor, now, read_errors, trace, evars>>

\* generator.stream_readings(start_time=start_time)
RerollStream(start_time) ==
    /\ stream = NoStream
    /\ stream' = NewStream("readings", "", <<>>, start_time, 0)
    /\ UNCHANGED <<generator, last>> /\ RerollFrame

\* next(stream).  last records the timestamp of the group, whether the
\* temperature sensor re-rolled its weather offset in it, and the time the
\* re-roll is measured from: that of the previous re-roll of the stream,
\* the start of the stream when there was none.
RerollNext(d) ==
    LET out == stream_readings(generator, stream, now, d)
        t == out.stream.current_time
        rerolled == out.generator.temperature_sensor.weather_change_time
                        # generator.temperature_sensor.weather_change_time
        first == stream.pc = "created"
    IN  /\ stream.kind = "readings"
        /\ stream.pc \in {"created", "running"}
        /\ Len(stream.timestamps) < MaxItems
        /\ generator' = out.generator
        /\ stream' = out.stream
        /\ last' = [op |-> "next", timestamp |-> t, rerolled |-> rerolled,
                    change_interval |-> d.change_interval,
                    since |-> IF first THEN t
                              ELSE IF last.rerolled THEN last.timestamp ELSE last.since,
                    rolled_before |-> ~first /\ (last.rerolled \/ last.rolled_before)]
        /\ RerollFrame

NextReroll ==
    \/ \E st \in RerollStartTimes : RerollStream(st)
    \/ \E d \in RerollDraws : RerollNext(d)

SpecReroll == InitReroll /\ [][NextReroll]_vars

\* --------------------------------------------- a network and its weather
\* The locations a network is configured for, the weather a caller sets
\* (the five conditions of set_weather and one only the humidity sensor
\* knows) and its intensity: 0.5, 1.0 and 2.0.
Locations == {"Sydney", "Darwin", "Alice Springs"}
NetworkConditions == {"sunny", "cloudy", "rainy", "stormy", "windy", "foggy"}
NetworkIntensities == {Units(50), Units(100), Units(200)}

\* DataGenerator(SensorNetwork(location=..., weather_sync=...))
InitNetwork ==
    /\ \E location \in Locations, weather_sync \in BOOLEAN :
           generator = DataGenerator([SensorNetwork(1, TRUE)
                                         EXCEPT !.location = location,
                                                !.weather_sync = weather_sync], 0)
    /\ stream = NoStream
    /\ sensor = BaseSensor("sensor_1", "generic", 0)
    /\ now = 0
    /\ read_errors = 0
    /\ trace = NoTrace
    /\ InitNoZ
    /\ InitNoRules
    /\ InitNoManager
    /\ env = [sensors |-> {}, budget |-> 0]
    /\ InitNoDetect
    /\ last = NoCall

NetworkFrame == UNCHANGED <<zvars, rvars, mvars, sensor, read_errors, trace, stream, evars>>

\* generator.set_weather(condition, intensity)
SetWeather(condition, intensity) ==
    /\ generator' = set_weather(generator, condition, intensity, now)
    /\ last' = [op |-> "set_weather", condition |-> condition, intensity |-> intensity,
                before |-> generator]
    /\ UNCHANGED now /\ NetworkFrame

\* A day passes.
NetworkTick ==
    /\ now < MaxDays
    /\ now' = now + 1
    /\ last' = NoCall
    /\ UNCHANGED generator /\ NetworkFrame

NextNetwork ==
    \/ \E condition \in NetworkConditions, intensity \in NetworkIntensities :
           SetWeather(condition, intensity)
    \/ NetworkTick

SpecNetwork == InitNetwork /\ [][NextNetwork]_vars

\* ------------------------------------------------ properties: z-score
\* The values processed for the last call's key before that call.
PriorOfLast == SubSeq(history[last.key], 1, Len(history[last.key]) - 1)

\* C1: the window a reading is scored against holds exactly the N most
\* recent values processed for the same key strictly before it, never the
\* reading itself; the reading enters the window only after the check.
C1_ScoredAgainstPriorOnly ==
    last.op = "z" =>
        /\ last.scored => last.scored_against = LastN(PriorOfLast, window_size)
        /\ sensor_windows[last.key].values = LastN(history[last.key], window_size)

\* C1 witness: a reading scored against a window of 3 earlier values of its
\* key after a reading of another key was processed in between; the
\* reading's own value is not among the values it was scored against.
C1_Witness ==
    /\ last.op = "z" /\ last.scored /\ window_size = 3
    /\ Len(last.scored_against) = 3
    /\ \A i \in 1..3 : last.scored_against[i] # last.reading.value
    /\ Cardinality(DOMAIN history) = 2
    /\ last.alerts # <<>>

\* C2: the first N readings processed for a key (N = window size) never
\* produce a statistical alert, and no z-score is computed for them,
\* whatever the values and the interleaving with other keys.
C2_FirstNNeverAlert ==
    (last.op = "z" /\ Len(history[last.key]) <= window_size) =>
        /\ last.alerts = <<>>
        /\ ~last.scored

\* C2 witness: the N-th reading of a key (N = 3), far from the earlier
\* ones, processed after a reading of another key, so that more than N
\* readings were processed in all; it raises no alert.
C2_Witness ==
    /\ last.op = "z" /\ window_size = 3
    /\ Len(history[last.key]) = 3
    /\ TotalProcessed > 3
    /\ last.reading.value = 80
    /\ history[last.key][1] # 80 /\ history[last.key][2] # 80
    /\ history[last.key][1] # history[last.key][2]
    /\ last.alerts = <<>>

\* C3: a window of size N never holds more than N values; after N + k
\* insertions it holds the most recent N values in insertion order, and its
\* timestamps are those of the same readings.
C3_WindowCapacityFIFO ==
    \A k \in DOMAIN sensor_windows :
        LET w == sensor_windows[k]
            h == history[k]
        IN  /\ Len(w.values) <= window_size
            /\ w.values = LastN(h, window_size)
            /\ Len(w.timestamps) = Len(w.values)
            /\ \A i \in 1..Len(w.values) :
                   /\ w.timestamps[i] = Len(h) - Len(w.values) + i
                   /\ h[w.timestamps[i]] = w.values[i]

\* C3 witness: N + 2 values went into a window of size N = 2; the oldest
\* two are gone.
C3_Witness ==
    \E k \in DOMAIN sensor_windows :
        /\ window_size = 2
        /\ Len(history[k]) = 4
        /\ sensor_windows[k].values = SubSeq(history[k], 3, 4)
        /\ sensor_windows[k].timestamps = <<3, 4>>
        /\ history[k][1] # history[k][3]

\* The z-score of the definition, computed from the deviations: with
\* m = sum / n, z^2 = (v - m)^2 / (sum of (x - m)^2 / (n - 1)); both
\* sides are multiplied by n^2.
RECURSIVE SumSqDev(_, _, _)
SumSqDev(s, n, total) ==
    IF s = <<>> THEN 0
    ELSE (n * Head(s) - total) * (n * Head(s) - total) + SumSqDev(Tail(s), n, total)

DevNum(w, v) == (Len(w) * v - SeqSum(w)) * (Len(w) * v - SeqSum(w)) * (Len(w) - 1)
DevDen(w) == SumSqDev(w, Len(w), SeqSum(w))

\* A window on which the z-score is defined: two values at least, not all equal.
Degenerate(w) == Len(w) < 2 \/ \A i, j \in 1..Len(w) : w[i] = w[j]

\* z >= t for the z of window w and value v.
DefZGe(w, v, t) == t <= 0 \/ DevNum(w, v) >= t * t * DevDen(w)

DefSeverity(w, v) ==
    IF DefZGe(w, v, 5) THEN "critical"
    ELSE IF DefZGe(w, v, 4) THEN "high"
    ELSE IF DefZGe(w, v, 3) THEN "medium"
    ELSE "low"

\* C4: a reading scored against a full window with a positive standard
\* deviation yields exactly one alert if z >= z_threshold and none
\* otherwise, z = |value - mean| / sample stdev; the alert carries that z,
\* the severity critical / high / medium / low for z >= 5 / 4 / 3 / below,
\* and z_threshold as its threshold.  With window size 5 and threshold 2.0
\* the readings 23.0, 24.0, 22.5, 23.5, 24.5 yield no alert and a sixth
\* reading of 40.0 yields one alert, at least medium, with z > 2.0.
C4_AlertIffZAtLeastThreshold ==
    /\ (last.op = "z" /\ last.scored /\ ~Degenerate(last.scored_against)) =>
          LET w == last.scored_against
              v == last.reading.value
          IN  IF DefZGe(w, v, z_threshold)
                 THEN /\ Len(last.alerts) = 1
                      /\ last.alerts[1].severity = DefSeverity(w, v)
                      /\ last.alerts[1].threshold = z_threshold
                      /\ last.alerts[1].value = v
                      /\ last.alerts[1].metadata.z_score.kind = "num"
                      /\ last.alerts[1].metadata.z_score.num * DevDen(w) =
                             DevNum(w, v) * last.alerts[1].metadata.z_score.den
                 ELSE last.alerts = <<>>
    /\ (last.op = "z" /\ <<window_size, z_threshold>> = ScenarioConfig) =>
          \A n \in 1..Len(ScenarioReadings) :
              history[last.key] = SubSeq(ScenarioReadings, 1, n) =>
                  IF n < Len(ScenarioReadings)
                  THEN last.alerts = <<>>
                  ELSE /\ Len(last.alerts) = 1
                       /\ SeverityRank(last.alerts[1].severity) >= SeverityRank("medium")
                       /\ ZGt(last.alerts[1].metadata.z_score, 2)

\* C4 witness: the scenario has run to its sixth reading, 40.0, which
\* raised one alert.
C4_Witness ==
    /\ last.op = "z"
    /\ <<window_size, z_threshold>> = ScenarioConfig
    /\ history[last.key] = ScenarioReadings
    /\ last.scored /\ ~Degenerate(last.scored_against)
    /\ Len(last.alerts) = 1

\* C5 as stated: a reading scored against a window with fewer than 2
\* values, or with all values equal, gets the score 0.0 and raises no
\* alert, for every window size and every z_threshold.
C5_DegenerateNeverAlerts ==
    (last.op = "z" /\ last.scored /\ Degenerate(last.scored_against)) =>
        /\ IsZero(last.z_score)
        /\ last.alerts = <<>>

\* C5 amended: on such a window the score is exactly 0.0; it raises no
\* alert when z_threshold > 0, and with z_threshold <= 0 the score 0.0
\* meets the threshold and one alert of severity low is raised.
C5_DegenerateScoreZero ==
    (last.op = "z" /\ last.scored /\ Degenerate(last.scored_against)) =>
        /\ IsZero(last.z_score)
        /\ z_threshold > 0 => last.alerts = <<>>
        /\ z_threshold <= 0 =>
               /\ Len(last.alerts) = 1
               /\ last.alerts[1].severity = "low"

\* C5 witness: under a positive threshold, a reading of 40.0 scored against
\* a full window of two equal values, 23.0 and 23.0, raises no alert.
C5_Witness ==
    /\ last.op = "z" /\ last.scored
    /\ z_threshold > 0
    /\ last.scored_against = <<46, 46>>
    /\ last.reading.value = 80
    /\ last.alerts = <<>>

\* -------------------------------------------- properties: rule-based
\* The positions of the rules of rs that apply to reading r and hold on it.
Matching(rs, r) ==
    {i \in 1..Len(rs) :
        /\ rs[i].sensor_type = r.sensor_type
        /\ Condition(rs[i].condition, r.value)}

\* The j-th smallest element of a set of positions.
Nth(M, j) == CHOOSE i \in M : Cardinality({k \in M : k < i}) = j - 1

\* C6: process_reading returns, in catalogue order, exactly one alert for
\* each registered rule of the reading's sensor type whose predicate holds
\* on its value, without deduplication or short-circuit; the result is a
\* function of the catalogue and the reading alone.
C6_OneAlertPerMatchingRuleInOrder ==
    last.op = "rule" =>
        LET M == Matching(last.rules, last.reading)
        IN  /\ Len(last.alerts) = Cardinality(M)
            /\ \A j \in 1..Len(last.alerts) :
                   LET rule == last.rules[Nth(M, j)]
                       alert == last.alerts[j]
                   IN  /\ alert.rule_name = rule.name
                       /\ alert.severity = rule.severity
                       /\ alert.threshold = rule.threshold
                       /\ alert.value = last.reading.value
                       /\ alert.sensor_type = last.reading.sensor_type
                       /\ alert.timestamp = last.reading.timestamp

\* C6 witness: a temperature reading of 50.0 or more under a catalogue
\* with a rule added at run time fires three rules at once.
C6_Witness ==
    /\ last.op = "rule"
    /\ last.rules # DefaultRules
    /\ Len(last.alerts) = 3
    /\ last.alerts[1].rule_name = last.alerts[3].rule_name
    /\ last.alerts[1].severity # last.alerts[3].severity

Severities(alerts) == [i \in 1..Len(alerts) |-> alerts[i].severity]
Thresholds(alerts) == [i \in 1..Len(alerts) |-> alerts[i].threshold]
RuleTypeOf(name) ==
    LET i == CHOOSE k \in 1..Len(DefaultRules) : DefaultRules[k].name = name
    IN  DefaultRules[i].sensor_type

\* C7: under the default catalogue a temperature above 35 raises two
\* alerts, high (threshold 35) then medium (threshold 30); one above 30 and
\* not above 35 raises medium only; one below -5 raises high; one from -5
\* to 30 raises none; humidity below 0 or above 100 raises one critical
\* alert and pressure below 950 or above 1050 one medium alert, values
\* inside raise none; no reading fires a rule of another sensor type.
C7_DefaultCatalogue ==
    (last.op = "rule" /\ last.rules = DefaultRules /\ ~IsNaN(last.reading.value)) =>
        LET v == last.reading.value
            t == last.reading.sensor_type
            sev == Severities(last.alerts)
        IN  /\ (t = "temperature" /\ v > Units(35)) =>
                   /\ sev = <<"high", "medium">>
                   /\ Thresholds(last.alerts) = <<Units(35), Units(30)>>
            /\ (t = "temperature" /\ v > Units(30) /\ v <= Units(35)) => sev = <<"medium">>
            /\ (t = "temperature" /\ v < Units(-5)) => sev = <<"high">>
            /\ (t = "temperature" /\ v >= Units(-5) /\ v <= Units(30)) => sev = <<>>
            /\ (t = "humidity" /\ (v < Units(0) \/ v > Units(100))) => sev = <<"critical">>
            /\ (t = "humidity" /\ v >= Units(0) /\ v <= Units(100)) => sev = <<>>
            /\ (t = "pressure" /\ (v < Units(950) \/ v > Units(1050))) => sev = <<"medium">>
            /\ (t = "pressure" /\ v >= Units(950) /\ v <= Units(1050)) => sev = <<>>
            /\ t \notin {"temperature", "humidity", "pressure"} => sev = <<>>
            /\ \A i \in 1..Len(last.alerts) :
                   /\ RuleTypeOf(last.alerts[i].rule_name) = t
                   /\ last.alerts[i].sensor_type = t

\* C7 witness: a temperature reading of 40.0 under the default catalogue
\* raised its two alerts.
C7_Witness ==
    /\ last.op = "rule"
    /\ last.rules = DefaultRules
    /\ last.reading.sensor_type = "temperature"
    /\ last.reading.value = Units(40)
    /\ Len(last.alerts) = 2

\* -------------------------------------------- properties: coordinator
\* What the detector named d returns for the last reading on the state the
\* call started from.
AlertsOf(d) ==
    IF d = "rule_based"
    THEN RuleBasedDetector_process_reading(last.rules, last.reading)
    ELSE ZScoreDetector_process_reading(window_size, z_threshold, last.windows,
                                        last.reading).alerts

RECURSIVE ConcatAlertsOf(_)
ConcatAlertsOf(ds) ==
    IF ds = <<>> THEN <<>> ELSE AlertsOf(Head(ds)) \o ConcatAlertsOf(Tail(ds))

\* The window values of the last reading's key when the call started.
WindowBefore ==
    IF last.key \in DOMAIN last.windows THEN last.windows[last.key].values ELSE <<>>

C9_HistoryIsConcatenationOfReturns ==
    /\ all_alerts = returned
    /\ last.op = "manager" =>
           /\ all_alerts = last.before \o last.alerts
           /\ \A i \in 1..Len(last.alerts) :
                  /\ last.alerts[i].timestamp = last.reading.timestamp
                  /\ last.alerts[i].sensor_type = last.reading.sensor_type
                  /\ last.alerts[i].value = last.reading.value

\* C9 witness: a call returned two alerts when the history already held
\* alerts of an earlier call for another reading.
C9_Witness ==
    /\ last.op = "manager"
    /\ Len(last.before) >= 1
    /\ Len(last.alerts) = 2
    /\ last.before[1].value # last.reading.value
    /\ all_alerts = last.before \o last.alerts

\* ------------------------------------------------- properties: sensor
\* C10: read() on a sensor that is not active (never activated, or
\* deactivated) raises: it returns no reading and leaves reading_count,
\* last_reading and every other attribute as they were; on an active
\* sensor, also one activated again, it returns a reading.
C10_InactiveReadIsError ==
    last.op = "read" =>
        IF ~last.before.is_active
        THEN /\ last.outcome = "error"
             /\ last.reading = <<>>
             /\ sensor.reading_count = last.before.reading_count
             /\ sensor.last_reading = last.before.last_reading
             /\ sensor = last.before
        ELSE /\ last.outcome = "ok"
             /\ Len(last.reading) = 1
             /\ sensor.is_active

\* C10 witness: a read returned a reading on a sensor that had returned
\* one before and had also raised on a read while inactive.
C10_Witness ==
    /\ last.op = "read"
    /\ last.outcome = "ok"
    /\ read_errors >= 1
    /\ last.before.reading_count >= 1
    /\ sensor.reading_count = last.before.reading_count + 1

\* C11: after any sequence of activate, deactivate, calibrate, setter and
\* read calls, reading_count equals the number of read calls that returned
\* a reading (malfunction readings included), it never decreases, and
\* last_reading is the reading the most recent such call returned.
C11_ReadingCountCountsReturnedReadings ==
    /\ [](/\ sensor.reading_count = trace.reads
          /\ sensor.last_reading = trace.reading)
    /\ [][sensor'.reading_count >= sensor.reading_count]_vars

\* C11 witness: two readings were returned, the last one a malfunction
\* reading, with a raising read, a calibration and a deactivation around
\* them.
C11_Witness ==
    /\ sensor.reading_count = 2
    /\ trace.reads = 2
    /\ IsNaN(sensor.last_reading[1].value)
    /\ trace.calibration # <<>>
    /\ read_errors >= 1
    /\ ~sensor.is_active

\* The last call was a read that returned a reading of the normal branch.
NormalRead ==
    /\ last.op = "read"
    /\ last.outcome = "ok"
    /\ ~last.reading[1].metadata.malfunction

\* C12: every non-malfunction reading read() returns has
\* range_min <= value <= range_max, whatever the base value, the drift
\* amount and the noise perturbation were.
C12_ReadingWithinRange ==
    NormalRead =>
        /\ last.before.range_min <= last.reading[1].value
        /\ last.reading[1].value <= last.before.range_max

\* C12 witness: a base value above the range, drifted and perturbed, was
\* returned as range_max.
C12_Witness ==
    /\ NormalRead
    /\ last.generated[1] > last.before.range_max
    /\ last.reading[1].metadata.drift_applied # 0
    /\ last.before.noise_level > 0
    /\ last.reading[1].value = last.before.range_max

\* C13 as stated: every reading taken with noise_level = 0 and
\* drift_factor = 0 has the value _generate_base_value returned (clamped to
\* the range) and metadata reporting that base value and a drift of 0.
C13_AllReadingsEqualBase ==
    (/\ last.op = "read"
     /\ last.outcome = "ok"
     /\ last.before.noise_level = 0
     /\ last.before.drift_factor = 0)
    => /\ ~last.reading[1].metadata.malfunction
       /\ last.reading[1].value = clamp_to_range(last.before, last.generated[1])
       /\ last.reading[1].metadata.base_value = last.generated[1]
       /\ last.reading[1].metadata.drift_applied = 0

\* C13, amended: every non-malfunction reading taken with noise_level = 0
\* and drift_factor = 0 has the value _generate_base_value returned
\* (clamped to the range) and metadata reporting that base value and a
\* drift of 0; a malfunction reading has a not-a-number value and no base
\* value.
C13_NormalReadingsEqualBase ==
    (/\ last.op = "read"
     /\ last.outcome = "ok"
     /\ last.before.noise_level = 0
     /\ last.before.drift_factor = 0)
    => IF last.reading[1].metadata.malfunction
       THEN /\ IsNaN(last.reading[1].value)
            /\ last.generated = <<>>
       ELSE /\ last.reading[1].value = clamp_to_range(last.before, last.generated[1])
            /\ last.reading[1].metadata.base_value = last.generated[1]
            /\ last.reading[1].metadata.drift_applied = 0

\* C13 witness: a normal reading with noise level 0 and drift factor 0, a
\* day after the calibration date, returned its base value.
C13_Witness ==
    /\ NormalRead
    /\ last.before.noise_level = 0
    /\ last.before.drift_factor = 0
    /\ now > last.before.calibration_date
    /\ last.reading[1].value = last.generated[1]

\* ------------------------------------------- properties: calibration
\* The last call was a noise-free normal read after a calibration.
ReadAfterCalibration ==
    /\ NormalRead
    /\ last.before.noise_level = 0
    /\ trace.calibration # <<>>

\* C14: with noise level 0, calibrate(r, a) followed at once by a read at
\* the calibration instant yields the reference r, for any reference in
\* range and any prior drift state.
C14_ReadAfterCalibrateIsReference ==
    (/\ ReadAfterCalibration
     /\ now = trace.calibration[1].date
     /\ last.reading[1].timestamp = trace.calibration[1].date)
    => last.reading[1].value = trace.calibration[1].reference

\* What the code does at the calibration instant: the reading is the base
\* value, whatever the reference was.
C14_ReadAfterCalibrateIsBase ==
    (/\ ReadAfterCalibration
     /\ now = trace.calibration[1].date)
    => last.reading[1].value = clamp_to_range(last.before, last.generated[1])

\* C15: after calibrate() the drift accumulates from zero at the rate
\* configured before: a noise-free reading for a timestamp d days after the
\* calibration instant is reference + rate * d * (range_max - range_min) / 100.
C15_DriftRatePreserved ==
    ReadAfterCalibration =>
        last.reading[1].value =
            clamp_to_range(last.before,
                trace.calibration[1].reference
                + (trace.calibration[1].rate
                   * (last.reading[1].timestamp - trace.calibration[1].date)
                   * (last.before.range_max - last.before.range_min)) \div One)

\* The case of test_calibration.py: drift rate 0.5, calibrated against the
\* true value 50.0, read for two days after the calibration.
C15_TestCase ==
    /\ ReadAfterCalibration
    /\ trace.calibration[1].rate = 1
    /\ trace.calibration[1].reference = Units(50)
    /\ last.generated[1] = Units(50)
    /\ last.reading[1].timestamp = trace.calibration[1].date + 2

\* C15 on the test's case: the reading is 51.0.
C15_TestCaseReads51 == C15_TestCase => last.reading[1].value = Units(51)

\* ---------------------------------------------- properties: humidity
\* C19: every humidity value the Humidity sensor generates, as a base value
\* and as the value of the reading, satisfies 0 <= value <= 100, for
\* arbitrary current-temperature input, weather offset (re-rolled or set by
\* set_weather_condition at any intensity), seasonal offset and daily
\* offset, after any sequence of reads.
C19_HumidityBounds ==
    (/\ last.op = "humidity_read"
     /\ last.outcome = "ok"
     /\ ~last.reading[1].metadata.malfunction)
    => /\ 0 <= last.generated[1]
       /\ last.generated[1] <= Units(100)
       /\ 0 <= last.reading[1].value
       /\ last.reading[1].value <= Units(100)

\* C19 witness: a second read, at a current temperature of -40 degrees
\* (a psychrometric adjustment in the thousands) and with a weather offset
\* set by a condition, generated 100.
C19_Witness ==
    /\ last.op = "humidity_read"
    /\ last.outcome = "ok"
    /\ last.before.reading_count >= 1
    /\ last.before.current_temperature = Units(-40)
    /\ last.before.weather_humidity_offset < 0
    /\ last.generated = <<Units(100)>>
    /\ last.reading[1].value <= Units(100)

\* ------------------------------------------------ properties: streams
\* The stream came from stream_readings or stream_single_sensor and has
\* run its first lines.
DurationStream == stream.kind \in {"readings", "single"} /\ stream.origin # <<>>

\* The k-th item of the stream (from 0) is for origin + k * update_interval.
OnTheGrid ==
    \A k \in 1..Len(stream.timestamps) :
        stream.timestamps[k] = stream.origin[1] + (k - 1) * generator.config.update_interval

\* C16: whenever a duration bound is supplied to stream_readings or
\* stream_single_sensor the stream yields only items for the times
\* start_time + k * update_interval strictly before start_time + duration,
\* and once it has stopped it has yielded all of them; without a bound it
\* never stops on its own.
C16_DurationBoundsStream ==
    DurationStream =>
        IF stream.duration # <<>>
        THEN /\ OnTheGrid
             /\ \A k \in 1..Len(stream.timestamps) :
                    stream.timestamps[k] < stream.origin[1] + stream.duration[1]
             /\ stream.pc = "done" =>
                    stream.origin[1] + Len(stream.timestamps) * generator.config.update_interval
                        >= stream.origin[1] + stream.duration[1]
        ELSE stream.pc # "done"

\* What the code does: the bound is in force for a duration other than 0,
\* and a duration of 0 is taken for no bound at all.
C16_NonZeroDurationBoundsStream ==
    DurationStream =>
        IF ~Falsy(stream.duration)
        THEN /\ OnTheGrid
             /\ \A k \in 1..Len(stream.timestamps) :
                    stream.timestamps[k] < stream.origin[1] + stream.duration[1]
             /\ stream.pc = "done" =>
                    stream.origin[1] + Len(stream.timestamps) * generator.config.update_interval
                        >= stream.origin[1] + stream.duration[1]
        ELSE stream.pc # "done" /\ stream.end_time = <<>>

\* A stream with a duration of 0 yielded MaxItems items.
C16_ZeroDurationYields ==
    /\ DurationStream
    /\ stream.duration = <<0>>
    /\ Len(stream.timestamps) = MaxItems

\* The readings of the group just yielded carry the group's timestamp.
GroupCarriesTimestamp ==
    stream.item # <<>> =>
        /\ stream.item[1].timestamp = stream.timestamps[Len(stream.timestamps)]
        /\ stream.item[1].temperature.timestamp = stream.item[1].timestamp
        /\ stream.item[1].pressure.timestamp = stream.item[1].timestamp
        /\ stream.item[1].humidity.timestamp = stream.item[1].timestamp

HumidityWasRead ==
    /\ stream.kind # "none"
    /\ stream.item # <<>>
    /\ (stream.kind = "single" => Lower(stream.sensor_type) = "humidity")

\* The humidity sensor was read with the value of the latest temperature
\* reading as its current temperature, that reading taken for the same
\* timestamp.
CoupledRead ==
    /\ generator.temperature_sensor.last_reading # <<>>
    /\ stream.input = <<generator.temperature_sensor.last_reading[1].value>>
    /\ generator.temperature_sensor.last_reading[1].timestamp
           = generator.humidity_sensor.last_reading[1].timestamp

\* C18 as stated: in every stream of the generator, at each humidity read
\* the humidity sensor's current temperature is the value of the most
\* recent temperature reading, taken earlier in the same tick for the same
\* timestamp.
C18_HumidityReadIsCoupled == HumidityWasRead => CoupledRead

\* C18, amended: that holds in every stream of a generator whose
\* temperature_coupling is enabled; with the coupling disabled nothing is
\* pushed and the humidity sensor is read with the current temperature it
\* had before the stream.
C18_HumidityReadIsCoupledWhenEnabled ==
    HumidityWasRead =>
        IF generator.config.temperature_coupling
        THEN CoupledRead
        ELSE stream.input = <<Units(20)>>

\* C18 witness: with the coupling enabled, the second humidity reading of
\* a single-sensor stream was taken at a current temperature other than
\* the constructor's 20 degrees.
C18_Witness ==
    /\ HumidityWasRead
    /\ generator.config.temperature_coupling
    /\ stream.kind = "single"
    /\ Len(stream.timestamps) = 2
    /\ stream.input # <<Units(20)>>
    /\ CoupledRead

\* ------------------------------------- properties: malfunction readings
\* The values of a window that are numbers.
ValidValues(values) == SelectSeq(values, LAMBDA x : ~IsNaN(x))

\* No call of either detector raised.
C20_NeverRaises == last.op \in {"z", "rule"} => last.outcome = "returned"

\* The rule-based detector returns for every reading, and returns no alert
\* for a malfunction reading.
C20_RuleBasedReturns ==
    last.op = "rule" =>
        /\ last.outcome = "returned"
        /\ IsNaN(last.reading.value) => last.alerts = <<>>

\* No window holds a malfunction value, and none was scored against.
C20_WindowsHoldValidValues ==
    /\ \A k \in DOMAIN sensor_windows : ~HasNaN(sensor_windows[k].values)
    /\ last.op = "z" => ~HasNaN(last.scored_against)

\* A valid reading whose z-score against the valid values of its full
\* window reaches the threshold is alerted.
C20_LaterAnomaliesDetected ==
    (/\ last.op = "z"
     /\ last.scored
     /\ ~IsNaN(last.reading.value)
     /\ ZGe(get_z_score([window_size |-> window_size,
                         values |-> ValidValues(last.scored_against),
                         timestamps |-> <<>>],
                        last.reading.value),
            z_threshold))
    => last.alerts # <<>>

\* C20: a malfunction reading (NaN value) is treated as data by the
\* detectors: no call of the rule-based or the statistical detector raises,
\* the NaN is kept out of the rolling window, so that later readings of the
\* key are scored against valid values only, and a later anomalous reading
\* is still alerted.
C20_MalfunctionTreatedAsData ==
    /\ C20_NeverRaises
    /\ C20_WindowsHoldValidValues
    /\ C20_LaterAnomaliesDetected

\* The failing run: window size 3, threshold 2.0, the readings 23.0, 24.0,
\* NaN and then 40.0, which is neither alerted nor added to the window.
C20_FailingRun ==
    /\ window_size = 3
    /\ HistoryOf("temperature_test_temp") = <<46, 48, NaN, 80>>
    /\ last.op = "z"
    /\ last.alerts = <<>>

\* Once a full window holds a NaN, no reading of the key is alerted.
C20_NaNWindowNeverAlerts ==
    (last.op = "z" /\ HasNaN(last.scored_against)) => last.alerts = <<>>

\* ------------------------------------- properties: unknown sensor type
\* A single-sensor stream was requested for a type the generator has no
\* sensor of.
UnknownTypeRequested ==
    /\ stream.kind = "single"
    /\ Lower(stream.sensor_type) \notin {"temperature", "pressure", "humidity"}

\* Nothing was generated: no item, and the three sensors as constructed.
NothingGenerated ==
    /\ stream.timestamps = <<>>
    /\ stream.item = <<>>
    /\ generator = DataGenerator(generator.config, 0)

\* C21: requesting a single-sensor stream for an unrecognised sensor type
\* fails with an error before any generation begins: once the stream is
\* requested the request has failed, no reading is yielded and no sensor
\* has changed.
C21_UnknownTypeRequestFails ==
    UnknownTypeRequested => (stream.pc = "failed" /\ NothingGenerated)

\* What the code does for an unknown type: the request returns a stream,
\* which fails when it is first advanced and generates nothing.
C21_UnknownTypeGeneratesNothing ==
    UnknownTypeRequested => (stream.pc \in {"created", "failed"} /\ NothingGenerated)

\* The request for an unknown type has returned without an error.
C21_RequestReturned == UnknownTypeRequested /\ stream.pc = "created"

\* Recognised types are matched case-insensitively: "Humidity" yields
\* readings of the humidity sensor.
C21_CaseInsensitive ==
    (stream.kind = "single" /\ stream.sensor_type = "Humidity" /\ stream.pc = "running")
    => stream.item[1].sensor_type = "humidity"

C21_HumidityYielded ==
    stream.kind = "single" /\ stream.sensor_type = "Humidity" /\ stream.pc = "running"

\* -------------------------------------- properties: malformed lines
WellFormed(line) == LineOutcome(line) = "reading"

\* The alerts of the well-formed lines of a file from position i on,
\* processed in input order by the detectors of detect_command.
RECURSIVE AlertsOfWellFormed(_, _, _)
AlertsOfWellFormed(input, i, windows) ==
    IF i > Len(input) THEN <<>>
    ELSE IF ~WellFormed(input[i]) THEN AlertsOfWellFormed(input, i + 1, windows)
    ELSE LET out == AlertManager_process_reading(<<"rule_based", "z_score">>, <<>>,
                        DefaultRules, window_size, z_threshold, windows,
                        LineReading(input[i], i))
         IN  out.new_alerts \o AlertsOfWellFormed(input, i + 1, out.sensor_windows)

\* detect_command has left its loop with the alerts of every well-formed
\* line written, in input order.
AllWellFormedProcessed ==
    /\ detect.outfile = AlertsOfWellFormed(env.input, 1, EmptyMap)
    /\ detect.readings_count = Cardinality({i \in 1..Len(env.input) : WellFormed(env.input[i])})

\* C22: every line that fails to parse or is missing required fields (not
\* JSON, JSON that is not a record, missing value or timestamp, wrongly
\* typed field) is skipped without aborting: detect_command never raises,
\* and at its end the alerts of all well-formed lines are written in input
\* order.
C22_MalformedLinesSkipped ==
    /\ detect.pc # "raised"
    /\ detect.pc = "done" => AllWellFormedProcessed

\* What holds: a file whose malformed lines are text that is not JSON,
\* records without a value or a timestamp, or records whose timestamp is a
\* string of another format, is processed to its end.
C22_CaughtLinesSkipped ==
    (\A i \in 1..Len(env.input) : WellFormed(env.input[i]) \/ Caught(LineOutcome(env.input[i])))
    => /\ detect.pc # "raised"
       /\ detect.pc = "done" => AllWellFormedProcessed

\* The failing run: a JSON array or a wrongly typed field ends
\* detect_command with a TypeError, a well-formed line left unread.
C22_AbortedBeforeWellFormedLine ==
    /\ detect.pc = "raised"
    /\ detect.error = "TypeError"
    /\ \E i \in (detect.position + 2)..Len(env.input) : WellFormed(env.input[i])

\* A file with skipped lines between well-formed ones, processed to its end
\* with alerts written.
C22_SkippedAndDone ==
    /\ detect.pc = "done"
    /\ detect.outfile # <<>>
    /\ \E i \in 1..Len(env.input) : Caught(LineOutcome(env.input[i]))

\* ------------------------------------------- properties: the network
\* The location lower-cased with its spaces replaced by underscores.
NormalisedLocation(location) ==
    CASE location = "Sydney" -> "sydney"
      [] location = "Darwin" -> "darwin"
      [] location = "Alice Springs" -> "alice_springs"

\* C23: DataGenerator gives its three sensors the ids temp_<loc>,
\* pressure_<loc> and humidity_<loc>, where <loc> is the location
\* lower-cased with spaces replaced by underscores.
C23_IdsNormalised ==
    LET loc == NormalisedLocation(generator.config.location)
    IN  /\ generator.temperature_sensor.sensor_id = "temp_" \o loc
        /\ generator.pressure_sensor.sensor_id = "pressure_" \o loc
        /\ generator.humidity_sensor.sensor_id = "humidity_" \o loc

\* What the code gives for "Alice Springs": the space is kept.
C23_AliceSpringsKeepsSpace ==
    generator.config.location = "Alice Springs" =>
        /\ generator.temperature_sensor.sensor_id = "temp_alice springs"
        /\ generator.pressure_sensor.sensor_id = "pressure_alice springs"
        /\ generator.humidity_sensor.sensor_id = "humidity_alice springs"

\* The ids of a location without a space are as stated.
C23_SydneyIds ==
    generator.config.location = "Sydney" =>
        /\ generator.temperature_sensor.sensor_id = "temp_sydney"
        /\ generator.pressure_sensor.sensor_id = "pressure_sydney"
        /\ generator.humidity_sensor.sensor_id = "humidity_sydney"

\* The pressure system of each of the five conditions.
WeatherMapping ==
    {<<"sunny", "high">>, <<"cloudy", "front_warm">>, <<"rainy", "low">>,
     <<"stormy", "cyclone">>, <<"windy", "front_cold">>}

\* C28: weather synchronisation is all-or-nothing.  With weather_sync
\* enabled, one set_weather(condition, intensity) sets the temperature
\* weather offset, the pressure-system offset (sunny -> high, cloudy ->
\* front_warm, rainy -> low, stormy -> cyclone, windy -> front_cold) and the
\* humidity weather offset together, each as the sensor's own setter does
\* for that condition; with weather_sync disabled the call changes none of
\* the three sensors.
C28_WeatherSyncAllOrNothing ==
    last.op = "set_weather" =>
        IF last.before.config.weather_sync
        THEN \A m \in WeatherMapping :
                 m[1] = last.condition =>
                     /\ generator.temperature_sensor =
                            set_weather_conditions(last.before.temperature_sensor,
                                                   m[1], last.intensity, now)
                     /\ generator.pressure_sensor =
                            simulate_weather_system(last.before.pressure_sensor,
                                                    m[2], last.intensity, now)
                     /\ generator.humidity_sensor =
                            set_weather_condition(last.before.humidity_sensor,
                                                  m[1], last.intensity, now)
        ELSE generator = last.before

\* A storm of intensity 1.0 set on a synchronised coastal network: -0.9
\* degrees, -12 hPa (a cyclone) and a humidity offset set with them.
C28_Witness ==
    /\ last.op = "set_weather"
    /\ last.before.config.weather_sync
    /\ last.condition = "stormy"
    /\ last.intensity = One
    /\ generator.temperature_sensor.weather_offset = -900
    /\ generator.pressure_sensor.weather_pressure_offset = -12000
    /\ generator.humidity_sensor.weather_humidity_offset > 0

\* A call on a network with weather_sync disabled.
C28_WitnessDisabled ==
    /\ last.op = "set_weather"
    /\ ~last.before.config.weather_sync
    /\ now > 0

\* ---------------------------------------- properties: editing the rules
\* The names of the rules rs.
RuleNames(rs) == {rs[i].name : i \in 1..Len(rs)}

\* This step is an add_rule or a remove_rule call.
RulesEdited == edits' = edits + 1

\* The rules after the step are the rules before it with one rule appended
\* at the end, or with every rule of one name taken out and the others in
\* their order.
AppendedOrRemovedByName ==
    \/ \E rule \in AddedRules :
          /\ Len(rules') = Len(rules) + 1
          /\ SubSeq(rules', 1, Len(rules)) = rules
          /\ rules'[Len(rules')] = rule
    \/ \E name \in RemovedNames :
          /\ name \notin RuleNames(rules')
          /\ rules' = SelectSeq(rules, LAMBDA r : r.name # name)

\* C24: rules are addable and removable by name at run time.  add_rule
\* appends the rule at the end of the evaluation order, remove_rule(name)
\* removes every rule of that name and keeps the others in their order,
\* neither changes the alerts already emitted, and every alert of a later
\* reading comes from a rule that is in the catalogue then: a removed rule
\* never fires.
C24_RulesEditedByName ==
    /\ [][RulesEdited => (AppendedOrRemovedByName /\ last' = last)]_vars
    /\ [](last.op = "rule" =>
             \A i \in 1..Len(last.alerts) :
                 last.alerts[i].rule_name \in RuleNames(last.rules))
    /\ [][(last' # last /\ last'.op = "rule") => last'.rules = rules]_vars

\* A second temp_very_high rule was added and both were removed by name;
\* a later reading of 100.0 degrees fires the remaining temperature rule
\* only.
C24_Witness ==
    /\ last.op = "rule"
    /\ last.rules = rules
    /\ edits >= 2
    /\ Len(rules) = Len(DefaultRules) - 1
    /\ "temp_very_high" \notin RuleNames(rules)
    /\ last.reading.sensor_type = "temperature"
    /\ last.reading.value = Units(100)
    /\ Len(last.alerts) = 1

\* ------------------------------------------------- properties: reset
\* The windows a freshly constructed detector of the same window size
\* holds after the readings of history: per key, the last window_size
\* values.
FreshWindows ==
    /\ DOMAIN sensor_windows = DOMAIN history
    /\ \A k \in DOMAIN history :
          /\ sensor_windows[k].window_size = window_size
          /\ sensor_windows[k].values = LastN(history[k], window_size)

\* C25: a full reset of the statistical detector clears all per-sensor
\* windows.  After reset() the detector monitors no key, and from then on
\* it is in the state of a freshly constructed detector of the same window
\* size and threshold fed with the readings that followed the reset, so
\* that the first N readings of a key after the reset raise no alert.
C25_ResetClearsWindows ==
    /\ last.op = "reset" => list_monitored_sensors(sensor_windows) = {}
    /\ (last.op # "none" /\ last.since_reset) => FreshWindows
    /\ (last.op = "z" /\ last.since_reset /\ Len(history[last.key]) <= window_size)
       => last.alerts = <<>>

\* A detector of window size 2 was reset; the 40.0 degrees that follow
\* are alone in the window of their key and raise no alert.
C25_Witness ==
    /\ last.op = "z"
    /\ last.since_reset
    /\ window_size = 2
    /\ history = [k \in {"temperature_test_temp"} |-> <<80>>]
    /\ sensor_windows["temperature_test_temp"].values = <<80>>
    /\ last.alerts = <<>>

\* ------------------------------------------------ properties: quality
\* C26: every reading's quality lies in [0.0, 1.0]: it is exactly 0.0,
\* with a NaN value and the malfunction flag in the metadata, when the
\* malfunction roll triggers, and max(0, 1 - noise_level -
\* |drift_factor| / 100) otherwise; noise_level and malfunction_probability
\* stay within [0, 1] after any sequence of setter calls.
C26_QualityWithinUnitInterval ==
    /\ sensor.noise_level \in 0..One
    /\ sensor.malfunction_probability \in 0..One
    /\ (last.op = "read" /\ last.outcome = "ok") =>
           LET r == last.reading[1]
           IN  /\ r.quality \in 0..One
               /\ IF last.generated = <<>>
                  THEN r.quality = 0 /\ IsNaN(r.value) /\ r.metadata.malfunction
                  ELSE r.quality = Max(0, One - last.before.noise_level
                                              - Abs(last.before.drift_factor))

\* A sensor whose noise level and malfunction probability were set to 1.5
\* holds 1.0 for both, and its reading is a malfunction of quality 0.
C26_Witness ==
    /\ last.op = "read"
    /\ last.outcome = "ok"
    /\ last.generated = <<>>
    /\ sensor.noise_level = One
    /\ sensor.malfunction_probability = One
    /\ last.reading[1].quality = 0

\* A normal reading of a drifting sensor without noise: quality 0.995.
C26_WitnessNormal ==
    /\ last.op = "read"
    /\ last.generated # <<>>
    /\ last.before.noise_level = 0
    /\ last.reading[1].quality = One - 1

\* ------------------------------------- properties: independent keys
\* The alerts of the last of the readings values[i..] of one sensor,
\* processed alone and in this order from the windows given.
RECURSIVE AlertsAlone(_, _, _, _)
AlertsAlone(reading, values, i, windows) ==
    LET out == ZScoreDetector_process_reading(
                   window_size, z_threshold, windows,
                   SensorReading(values[i], i, reading.sensor_id, reading.sensor_type))
    IN  IF i >= Len(values) THEN out.alerts
        ELSE AlertsAlone(reading, values, i + 1, out.sensor_windows)

\* C27: no shared mutable state crosses sensor keys in the statistical
\* detector.  Processing a reading of one key leaves the window of every
\* other key as it was, and the alerts of a key's reading are, under every
\* interleaving with the readings of other keys, those a detector returns
\* that is fed the key's readings alone in the same order.
C27_KeysAreIndependent ==
    /\ [][\A k \in DOMAIN sensor_windows :
             k # last'.key => /\ k \in DOMAIN sensor_windows'
                              /\ sensor_windows'[k] = sensor_windows[k]]_vars
    /\ [](last.op = "z" =>
             last.alerts = AlertsAlone(last.reading, history[last.key], 1, EmptyMap))

\* A temperature of 40.0 degrees raises an alert against a full window of
\* its key while pressure readings were processed in between.
C27_Witness ==
    /\ last.op = "z"
    /\ last.key = "temperature_test_temp"
    /\ window_size >= 2
    /\ last.reading.value = 80
    /\ Len(history[last.key]) > window_size
    /\ last.alerts # <<>>
    /\ "pressure_test_pressure" \in DOMAIN history
    /\ sensor_windows["pressure_test_pressure"].values
           = LastN(history["pressure_test_pressure"], window_size)
    /\ Len(history["pressure_test_pressure"]) >= 1

\* ---------------------------------------- properties: keys of sensors
\* The key of the sensor with this type and id.
KeyOf(pair) == get_sensor_key(SensorReading(0, 0, pair[2], pair[1]))

\* C30: the statistical detector never mixes two sensors in one window:
\* readings whose (sensor_type, sensor_id) pairs differ are tracked in
\* different windows, also when the id is absent or when a type or an id
\* holds the separator.  Each sensor's window holds the last values of
\* that sensor only.
C30_SensorsNeverShareWindow ==
    /\ \A p, q \in DOMAIN history : p # q => KeyOf(p) # KeyOf(q)
    /\ \A p \in DOMAIN history :
          sensor_windows[KeyOf(p)].values = LastN(history[p], window_size)

\* The failing run: 23.0 from sensor "zone_1" of type "temperature" and
\* 24.0 from sensor "1" of type "temperature_zone" fill one window, and
\* 40.0 from the first is scored against both.
C30_MixedWindow ==
    /\ last.op = "z"
    /\ last.key = "temperature_zone_1"
    /\ last.reading.sensor_type = "temperature"
    /\ last.scored_against = <<46, 48>>
    /\ history[<<"temperature", "zone_1">>] = <<46, 80>>
    /\ history[<<"temperature_zone", "1">>] = <<48>>
    /\ last.alerts # <<>>

\* A sensor without an id and a sensor whose id is "None" share a window.
C30_AbsentIdShared ==
    /\ {<<"temperature", None>>, <<"temperature", "None">>} \subseteq DOMAIN history
    /\ DOMAIN sensor_windows = {"temperature_None"}

\* What holds: a window holds the values of the sensors of its key, and
\* sensors whose keys differ never share one.
C30_KeysNeverShareWindow ==
    \A p \in DOMAIN history :
        /\ KeyOf(p) \in DOMAIN sensor_windows
        /\ (\A q \in DOMAIN history : q # p => KeyOf(q) # KeyOf(p))
           => sensor_windows[KeyOf(p)].values = LastN(history[p], window_size)

\* ------------------------------ properties: the re-roll of the weather
\* C29: in a stream whose simulated time advances, the temperature
\* sensor's weather offset re-rolls every 30 to 120 simulated minutes,
\* independent of wall-clock time: a read never re-rolls it within 30
\* simulated minutes of the previous re-roll, and the first read more
\* than 120 simulated minutes after the previous re-roll (or after the
\* start of the stream) re-rolls it, for any simulated start_time.
C29_RerollsEvery30To120Minutes ==
    last.op = "next" =>
        /\ (last.rerolled /\ last.rolled_before
               => last.timestamp - last.since >= 1800)
        /\ (last.timestamp - last.since > 7200 => last.rerolled)

\* The failing run: the stream starts one day before the generator was
\* constructed; its third group, 150 simulated minutes after the start,
\* does not re-roll the offset, and none before it did.
C29_NoRerollAfter150Minutes ==
    /\ last.op = "next"
    /\ stream.start_time = <<0>>
    /\ last.timestamp - stream.origin[1] = 9000
    /\ ~last.rerolled
    /\ ~last.rolled_before
    /\ generator.temperature_sensor.weather_change_time = ConstructedAt

\* A stream that starts one day after the construction re-rolls the
\* offset in its first group.
C29_RerollAtStart ==
    /\ last.op = "next"
    /\ stream.start_time = <<172800>>
    /\ Len(stream.timestamps) = 1
    /\ last.rerolled

\* What holds: a read re-rolls the offset exactly when its timestamp is
\* more than the interval it drew after the time of the last change, which
\* is the wall-clock time of the construction until the first re-roll; a
\* re-roll is never within 30 simulated minutes of the one before it.
C29_RerollsAgainstLastChange ==
    last.op = "next" =>
        /\ last.rerolled <=>
               last.timestamp - (IF last.rolled_before THEN last.since ELSE ConstructedAt)
                   > last.change_interval
        /\ (last.rerolled /\ last.rolled_before
               => last.timestamp - last.since > 1800)
        /\ (last.rolled_before /\ last.timestamp - last.since > 7200 => last.rerolled)

\* A stream that starts now re-rolls in its third group, 150 minutes
\* after its start and after the construction.
C29_RerollWhenStartedNow ==
    /\ last.op = "next"
    /\ stream.start_time = <<>>
    /\ last.timestamp - stream.origin[1] = 9000
    /\ last.rerolled
    /\ ~last.rolled_before

====
